---- MODULE Spec2Model ----
(***************************************************************************)
(* Isothermal_Monolith_Simulator (isothermal_monolith_catalysis.py):       *)
(* the tracking flags of the build chain, the fixed flag of every variable *)
(* instance, the active flag of every constraint instance, the fixed flag  *)
(* of every kinetic parameter, and the staged continuation solve of        *)
(* initialize_simulator, one action per block of statements of its loops.  *)
(*                                                                         *)
(* Index sets are the discretized grids: Ages, Temps, Locs and Times are   *)
(* 1..N in set order, so model.z.first() = model.t.first() = 1.            *)
(* A concentration is a small integer: 0 is the derivative default,        *)
(* Floor stands for 1e-20.                                                 *)
(***************************************************************************)
EXTENDS Integers, Sequences, FiniteSets, TLC

NAges == 2
NTemps == 2
NLocs == 3
NTimes == 3

Ages == 1..NAges
Temps == 1..NTemps
Locs == 1..NLocs
Times == 1..NTimes
NPairs == NAges * NTemps

\* The inputs of the setup calls.
GasSpecies == {"g"}
SurfSpecies == {"s"}
SiteSpecies == {"x"}
RxnKinds == [r1 |-> "Arrhenius", r2 |-> "EquilibriumArrhenius"]
RxnNames == DOMAIN RxnKinds

\* The kinetic Vars of a reaction of each kind
KinParams(rxn) ==
    IF RxnKinds[rxn] = "Arrhenius" THEN {"A", "B", "E"} ELSE {"Af", "Ef", "dH", "dS"}

ParamsOf(rxn) == {<<p, rxn>> : p \in KinParams(rxn)}

AllParams == UNION {ParamsOf(rxn) : rxn \in DOMAIN RxnKinds}

\* A mapping with a kind that is not a ReactionType
BadRxnKinds == [r1 |-> "Arrhenius", r2 |-> "Unsupported"]

\* The info dictionaries of set_reaction_info: the keys present, and under
\* them the parameters, the stoichiometry and the orders
FieldNames == {"parameters", "mol_reactants", "mol_products", "rxn_orders"}
ParamsWithB == [A |-> 5, E |-> 6, B |-> 7, dH |-> 8, dS |-> 9]
ParamsNoB == [A |-> 5, E |-> 6, dH |-> 8, dS |-> 9]
ReactantMaps == {[g |-> 1], [g |-> 1, s |-> 2]}
ProductMaps == {[s |-> 1], [g |-> 2, s |-> 1]}
OrderMaps == {[g |-> 2, s |-> 3, x |-> 4]}

MakeInfo(has, params, reactants, products, orders) ==
    [has |-> has, parameters |-> params, mol_reactants |-> reactants,
     mol_products |-> products, rxn_orders |-> orders]

InfoWithB == MakeInfo(FieldNames, ParamsWithB, [g |-> 1], [g |-> 2, s |-> 1], [g |-> 2, s |-> 3, x |-> 4])
InfoNoB == MakeInfo(FieldNames, ParamsNoB, [g |-> 1], [g |-> 2, s |-> 1], [g |-> 2, s |-> 3, x |-> 4])
ICValues == {3}
BCValues == {4}
SolverValues == {7}

\* Concentrations are counted in halves of the floor 1e-20: 1 is a positive
\* value below the floor.
Floor == 2

\* Porosities are counted in halves: 2 is the porosity 1; 1 stands for the
\* defaults of __init__.
PorosityOne == 2
DefaultPorosity == 1

\* A mutable Param entry that has been given no value
NoValue == 0

\* The temperature add_temperature_set gives to every point
DefaultTemp == 298

\* The temperatures handed to set_isothermal_temp
TempValues == {400}

VARIABLES
    isBoundsSet, isTimesSet, isTempSet, isAgeSet, isGasSpecSet, isSurfSpecSet,
    isSitesSet, isRxnSet, isRxnBuilt, isConBuilt, isDiscrete,
    isInitialSet,      \* dict species -> bool
    isBoundarySet,     \* dict species -> bool
    rxn_list,          \* dict rxn -> [type, fixed]
    comps,             \* names of the components that exist on self.model
    all_species_set,   \* model.all_species_set
    configured,        \* reactions whose <rxn>_reactants/_products sets exist
    pfix,              \* <<param, rxn>> : the kinetic Var is fixed
    fixed,             \* variable instances that are fixed
    active,            \* constraint instances that are active
    val,               \* value of every variable instance
    outcome,           \* "running", "error" (print + exit()), "crash" (uncaught exception)
    pc,                \* position inside initialize_simulator, "idle" outside, "done" on return
    age_solve, temp_solve, time_solve, time_hold,
    fixed_dict,        \* initialize_simulator's local dictionary
    drvPairs,          \* driver: number of (age, temp) pairs whose conditions are set
    drvStep,           \* driver: the next call for the current pair
    solves,            \* history: the slices handed to the solver, in order
    pre,               \* history: flags and values at the last initialize_simulator call
    results,           \* what the last solver.solve of initialize_simulator returned
    bDefaulted,        \* history: Arrhenius reactions configured without a B
    all_rxns, arrhenius_rxns, equ_arrhenius_rxns,   \* the reaction sets of the model
    u_C, u_q,          \* stoichiometric coefficient of <<species, rxn, loc>>
    rxn_orders,        \* reaction order of <<rxn, species>>
    pval,              \* value of the kinetic parameter <<param, rxn>>
    Cb_in,             \* inlet concentration of <<species, age, temp, time>>
    Smax,              \* site density at <<site, age, loc, time>>
    T,                 \* temperature at <<age, temp, time>>
    age_param,         \* the Param model.age: age label at <<age, time>>
    eb, ew,            \* bulk and washcoat porosity
    call,              \* history: the method called last
    args               \* history: its arguments, where a property refers to them

flagVars == <<isBoundsSet, isTimesSet, isTempSet, isAgeSet, isGasSpecSet, isSurfSpecSet,
              isSitesSet, isRxnSet, isRxnBuilt, isConBuilt, isDiscrete>>
dictVars == <<isInitialSet, isBoundarySet>>
kinVars == <<rxn_list, pfix, bDefaulted>>
stateVars == <<fixed, active, val>>
loopVars == <<age_solve, temp_solve, time_solve, time_hold, fixed_dict>>
driverVars == <<drvPairs, drvStep>>
histVars == <<solves, pre, results>>
rxnSets == <<all_rxns, arrhenius_rxns, equ_arrhenius_rxns>>
paramVars == <<u_C, u_q, rxn_orders, pval, Cb_in, Smax, eb, ew>>
gridParams == <<T, age_param>>
dataVars == <<rxnSets, paramVars, gridParams>>
vars == <<flagVars, dictVars, kinVars, stateVars, loopVars, driverVars, histVars,
          comps, all_species_set, configured, outcome, pc, dataVars, call, args>>

----------------------------------------------------------------------------
\* Index sets of the model components

GasFams == {"Cb", "C", "dCb_dt", "dC_dt", "dCb_dz"}
SurfFams == {"q", "dq_dt"}
SiteFams == {"S"}
VarFams == GasFams \cup SurfFams \cup SiteFams

GasCons == {"bulk_cons", "pore_cons", "dCb_dz_disc_eq", "dCb_dt_disc_eq", "dC_dt_disc_eq"}
SurfCons == {"surf_cons", "dq_dt_disc_eq"}
SiteCons == {"site_cons"}
ConFams == GasCons \cup SurfCons \cup SiteCons

SpeciesOf(f) ==
    IF f \in GasFams \cup GasCons THEN GasSpecies
    ELSE IF f \in SurfFams \cup SurfCons THEN SurfSpecies
    ELSE SiteSpecies

\* An instance is <<family, species, age, temperature, location, time>>.
VarIndex(f) ==
    {<<f, s, a, tmp, z, t>> : s \in SpeciesOf(f), a \in Ages, tmp \in Temps, z \in Locs, t \in Times}

\* The discretization equations of a backward scheme have no instance at the
\* first point of the discretized dimension.
ConIndex(c) ==
    {i \in VarIndex(c) :
        /\ c \in {"dCb_dt_disc_eq", "dC_dt_disc_eq", "dq_dt_disc_eq"} => i[6] > 1
        /\ c = "dCb_dz_disc_eq" => i[5] > 1}

AllVarIndex == UNION {VarIndex(f) : f \in VarFams}
AllConIndex == UNION {ConIndex(c) : c \in ConFams}

VarsOf(fams) == {i \in AllVarIndex : i[1] \in fams}
ConsOf(fams) == {c \in AllConIndex : c[1] \in fams}

Running == outcome = "running"

\* No call is in progress. pc = "done": initialize_simulator has just returned.
Idle == Running /\ pc \in {"idle", "done"}

\* The driver builds the model before its first initialize_simulator call
Ready == Running /\ pc = "idle"

Exit == /\ outcome' = "error"
        /\ UNCHANGED <<flagVars, dictVars, kinVars, stateVars, loopVars, driverVars,
                       histVars, comps, all_species_set, configured, pc, dataVars>>

Crash == /\ outcome' = "crash"
         /\ UNCHANGED <<flagVars, dictVars, kinVars, stateVars, loopVars, driverVars,
                        histVars, comps, all_species_set, configured, pc, dataVars>>

Init ==
    /\ isBoundsSet = FALSE /\ isTimesSet = FALSE /\ isTempSet = FALSE
    /\ isAgeSet = FALSE /\ isGasSpecSet = FALSE /\ isSurfSpecSet = FALSE
    /\ isSitesSet = FALSE /\ isRxnSet = FALSE /\ isRxnBuilt = FALSE
    /\ isConBuilt = FALSE /\ isDiscrete = FALSE
    /\ isInitialSet = <<>> /\ isBoundarySet = <<>> /\ rxn_list = <<>>
    /\ comps = {} /\ all_species_set = {} /\ configured = {}
    /\ pfix = {} /\ fixed = {} /\ active = {}
    /\ val = [i \in AllVarIndex |-> IF i[1] \in {"dCb_dt", "dC_dt", "dCb_dz", "dq_dt"} THEN 0 ELSE Floor]
    /\ outcome = "running" /\ pc = "idle"
    /\ age_solve = 1 /\ temp_solve = 1 /\ time_solve = 1 /\ time_hold = 1
    /\ fixed_dict = <<>>
    /\ drvPairs = 0 /\ drvStep = "ic_gas"
    /\ solves = <<>>
    /\ pre = [fixed |-> {}, active |-> {}, val |-> <<>>, pfix |-> {}, again |-> FALSE]
    /\ results = "none"
    /\ bDefaulted = {}
    /\ all_rxns = {} /\ arrhenius_rxns = {} /\ equ_arrhenius_rxns = {}
    /\ rxn_orders = [i \in RxnNames \X (GasSpecies \cup SurfSpecies \cup SiteSpecies) |-> 0]
    /\ pval = [i \in AllParams |-> 0]
    /\ u_C = [i \in GasSpecies \X RxnNames \X Locs |-> 0]
    /\ u_q = [i \in SurfSpecies \X RxnNames \X Locs |-> 0]
    /\ Cb_in = [i \in GasSpecies \X Ages \X Temps \X Times |-> Floor]
    /\ Smax = [i \in SiteSpecies \X Ages \X Locs \X Times |-> Floor]
    /\ T = [i \in Ages \X Temps \X Times |-> NoValue]
    /\ age_param = [i \in Ages \X Times |-> NoValue]
    /\ eb = DefaultPorosity /\ ew = DefaultPorosity
    /\ call = "__init__" /\ args = <<>>

----------------------------------------------------------------------------
\* Setup calls. Each add_* call is made at most once.

add_axial_dim ==
    /\ Ready /\ ~isBoundsSet
    /\ call' = "add_axial_dim" /\ args' = <<>>
    /\ comps' = comps \cup {"z"}
    /\ isBoundsSet' = TRUE
    /\ pc' = "idle"
    /\ UNCHANGED <<isTimesSet, isTempSet, isAgeSet, isGasSpecSet, isSurfSpecSet, isSitesSet,
                   isRxnSet, isRxnBuilt, isConBuilt, isDiscrete, dictVars, kinVars, stateVars,
                   loopVars, driverVars, histVars, all_species_set, configured, outcome, dataVars>>

add_temporal_dim ==
    /\ Ready /\ ~isTimesSet
    /\ call' = "add_temporal_dim" /\ args' = <<>>
    /\ comps' = comps \cup {"t"}
    /\ isTimesSet' = TRUE
    /\ pc' = "idle"
    /\ UNCHANGED <<isBoundsSet, isTempSet, isAgeSet, isGasSpecSet, isSurfSpecSet, isSitesSet,
                   isRxnSet, isRxnBuilt, isConBuilt, isDiscrete, dictVars, kinVars, stateVars,
                   loopVars, driverVars, histVars, all_species_set, configured, outcome, dataVars>>

\* The points of the time set: its two bounds until the model is discretized
TPoints == IF isDiscrete THEN Times ELSE {1, NTimes}

add_age_set_guard == isTimesSet

add_age_set ==
    /\ Ready /\ ~isAgeSet
    /\ call' = "add_age_set" /\ args' = <<>>
    /\ IF ~add_age_set_guard THEN Exit
       ELSE /\ comps' = comps \cup {"age_set", "age"}
            /\ age_param' = [i \in DOMAIN age_param |->
                                IF i[2] \in TPoints THEN i[1] ELSE age_param[i]]
            /\ isAgeSet' = TRUE
            /\ pc' = "idle"
            /\ UNCHANGED <<isBoundsSet, isTimesSet, isTempSet, isGasSpecSet, isSurfSpecSet,
                           isSitesSet, isRxnSet, isRxnBuilt, isConBuilt, isDiscrete, dictVars,
                           kinVars, stateVars, loopVars, driverVars, histVars, all_species_set,
                           configured, outcome, rxnSets, paramVars, T>>

add_temperature_set_guard == isTimesSet /\ isAgeSet

add_temperature_set ==
    /\ Ready /\ ~isTempSet
    /\ call' = "add_temperature_set" /\ args' = <<>>
    /\ IF ~add_temperature_set_guard THEN Exit
       ELSE /\ comps' = comps \cup {"T_set", "T"}
            /\ T' = [i \in DOMAIN T |-> IF i[3] \in TPoints THEN DefaultTemp ELSE T[i]]
            /\ isTempSet' = TRUE
            /\ pc' = "idle"
            /\ UNCHANGED <<isBoundsSet, isTimesSet, isAgeSet, isGasSpecSet, isSurfSpecSet,
                           isSitesSet, isRxnSet, isRxnBuilt, isConBuilt, isDiscrete, dictVars,
                           kinVars, stateVars, loopVars, driverVars, histVars, all_species_set,
                           configured, outcome, rxnSets, paramVars, age_param>>

\* Mutation: the gas species do not wait for the axial dimension
add_gas_species_guard_noBounds == isTimesSet /\ isTempSet /\ isAgeSet

add_gas_species_guard == isTimesSet /\ isBoundsSet /\ isTempSet /\ isAgeSet

add_gas_species ==
    /\ Ready /\ ~isGasSpecSet
    /\ call' = "add_gas_species" /\ args' = <<>>
    /\ IF ~add_gas_species_guard THEN Exit
       ELSE /\ comps' = comps \cup {"gas_set", "Cb", "C", "Cb_in", "dCb_dz", "dCb_dt", "dC_dt"}
            /\ isGasSpecSet' = TRUE
            /\ isBoundarySet' = [s \in GasSpecies |-> FALSE]
            /\ pc' = "idle"
            /\ UNCHANGED <<isBoundsSet, isTimesSet, isTempSet, isAgeSet, isSurfSpecSet,
                           isSitesSet, isRxnSet, isRxnBuilt, isConBuilt, isDiscrete,
                           isInitialSet, kinVars, stateVars, loopVars, driverVars, histVars,
                           all_species_set, configured, outcome, dataVars>>

add_surface_species ==
    /\ Ready /\ ~isSurfSpecSet
    /\ call' = "add_surface_species" /\ args' = <<>>
    /\ IF ~isGasSpecSet THEN Exit
       ELSE /\ comps' = comps \cup {"surf_set", "q", "dq_dt"}
            /\ isSurfSpecSet' = TRUE
            /\ pc' = "idle"
            /\ UNCHANGED <<isBoundsSet, isTimesSet, isTempSet, isAgeSet, isGasSpecSet,
                           isSitesSet, isRxnSet, isRxnBuilt, isConBuilt, isDiscrete, dictVars,
                           kinVars, stateVars, loopVars, driverVars, histVars, all_species_set,
                           configured, outcome, dataVars>>

add_surface_sites ==
    /\ Ready /\ ~isSitesSet
    /\ call' = "add_surface_sites" /\ args' = <<>>
    /\ IF ~isSurfSpecSet THEN Exit
       ELSE /\ comps' = comps \cup {"site_set", "S", "Smax", "u_S"}
            /\ isSitesSet' = TRUE
            /\ pc' = "idle"
            /\ UNCHANGED <<isBoundsSet, isTimesSet, isTempSet, isAgeSet, isGasSpecSet,
                           isSurfSpecSet, isRxnSet, isRxnBuilt, isConBuilt, isDiscrete,
                           dictVars, kinVars, stateVars, loopVars, driverVars, histVars,
                           all_species_set, configured, outcome, dataVars>>

\* full_species_list of add_reactions
full_species_list ==
    GasSpecies
    \cup (IF isSurfSpecSet
          THEN SurfSpecies \cup (IF isSitesSet THEN SiteSpecies ELSE {})
          ELSE {})

\* Mutation: every reaction is put into the Arrhenius list
arr_rxn_list_all(rxns) == DOMAIN rxns

\* The loop over rxns: the reactions of each kind
arr_rxn_list(rxns) == {r \in DOMAIN rxns : rxns[r] = "Arrhenius"}
arr_equ_rxn_list(rxns) == {r \in DOMAIN rxns : rxns[r] = "EquilibriumArrhenius"}

\* add_reactions(rxns), rxns a dictionary from reaction names to kinds
add_reactions_of(rxns) ==
    /\ Ready /\ ~isRxnSet
    /\ call' = "add_reactions" /\ args' = <<rxns>>
    /\ IF ~isGasSpecSet THEN Exit
       ELSE IF \E r \in DOMAIN rxns : rxns[r] \notin {"Arrhenius", "EquilibriumArrhenius"} THEN Exit
       ELSE /\ comps' = comps
                \cup {"all_rxns", "arrhenius_rxns", "equ_arrhenius_rxns", "u_C", "A", "B", "E",
                      "Af", "Ef", "dH", "dS", "all_species_set", "rxn_orders"}
                \cup (IF isSurfSpecSet THEN {"u_q"} ELSE {})
            /\ all_rxns' = DOMAIN rxns
            /\ arrhenius_rxns' = arr_rxn_list(rxns)
            /\ equ_arrhenius_rxns' = arr_equ_rxn_list(rxns)
            /\ all_species_set' = full_species_list
            /\ isInitialSet' = [s \in DOMAIN isInitialSet \cup full_species_list |->
                                   IF s \in full_species_list THEN FALSE ELSE isInitialSet[s]]
            /\ isRxnSet' = TRUE
            /\ rxn_list' = [r \in DOMAIN rxns |-> [type |-> rxns[r], fixed |-> FALSE]]
            /\ pc' = "idle"
            /\ UNCHANGED <<isBoundsSet, isTimesSet, isTempSet, isAgeSet, isGasSpecSet,
                           isSurfSpecSet, isSitesSet, isRxnBuilt, isConBuilt, isDiscrete,
                           isBoundarySet, pfix, bDefaulted, stateVars, loopVars, driverVars,
                           histVars, configured, outcome, paramVars, gridParams>>

\* add_reactions with the two reactions of RxnKinds
add_reactions == add_reactions_of(RxnKinds)

----------------------------------------------------------------------------
\* Kinetic parameters

\* The z points of the model: the two bounds until the discretizer adds the rest
ZPoints == IF isDiscrete THEN Locs ELSE {1, NLocs}

\* Mutation: the product stoichiometry overwrites the reactant one
u_sum_lastWritten(spec, info) ==
    IF spec \in DOMAIN info.mol_products THEN info.mol_products[spec]
    ELSE IF spec \in DOMAIN info.mol_reactants THEN 0 - info.mol_reactants[spec]
    ELSE 0

\* u_C_sum / u_q_sum: minus the reactant stoichiometry, plus the product one
u_sum(spec, info) ==
    (IF spec \in DOMAIN info.mol_reactants THEN 0 - info.mol_reactants[spec] ELSE 0)
    + (IF spec \in DOMAIN info.mol_products THEN info.mol_products[spec] ELSE 0)

\* The values set_reaction_info stores in the kinetic Vars of rxn
param_value(i, info) ==
    IF i[1] \in {"A", "Af"} THEN info.parameters["A"]
    ELSE IF i[1] \in {"E", "Ef"} THEN info.parameters["E"]
    ELSE IF i[1] = "B" THEN (IF "B" \in DOMAIN info.parameters THEN info.parameters["B"] ELSE 0)
    ELSE info.parameters[i[1]]

\* Mutation: every order given is recorded
order_recorded_any(spec, info) ==
    spec \in all_species_set /\ spec \in DOMAIN info.rxn_orders

\* The orders recorded: of the species that are reactants or products
order_recorded(spec, info) ==
    /\ spec \in all_species_set /\ spec \in DOMAIN info.rxn_orders
    /\ spec \in DOMAIN info.mol_reactants \/ spec \in DOMAIN info.mol_products

\* Mutation: rxn_orders is not asked for
required_fields_noOrders == FieldNames \ {"rxn_orders"}

\* The keys set_reaction_info asks for, each with its own test
required_fields == FieldNames

\* set_reaction_info(rxn, info). Called once for a declared reaction (a second
\* call raises in add_component).
set_reaction_info(rxn, info) ==
    /\ Ready /\ rxn \notin configured
    /\ call' = "set_reaction_info" /\ args' = <<rxn, info>>
    /\ IF ~isRxnSet THEN Exit
       ELSE IF ~(required_fields \subseteq info.has) THEN Exit
       ELSE IF rxn \notin arrhenius_rxns \cup equ_arrhenius_rxns THEN Exit
       ELSE IF isSurfSpecSet /\ "u_q" \notin comps THEN Crash
       ELSE /\ IF rxn \in arrhenius_rxns /\ "B" \notin DOMAIN info.parameters
               THEN /\ pfix' = pfix \cup {<<"B", rxn>>}
                    /\ bDefaulted' = bDefaulted \cup {rxn}
               ELSE UNCHANGED <<pfix, bDefaulted>>
            /\ pval' = [i \in DOMAIN pval |-> IF i[2] = rxn THEN param_value(i, info) ELSE pval[i]]
            /\ u_C' = [i \in DOMAIN u_C |->
                          IF i[2] = rxn /\ i[3] \in ZPoints THEN u_sum(i[1], info) ELSE u_C[i]]
            /\ u_q' = [i \in DOMAIN u_q |->
                          IF isSurfSpecSet /\ i[2] = rxn /\ i[3] \in ZPoints
                          THEN u_sum(i[1], info) ELSE u_q[i]]
            /\ rxn_orders' = [i \in DOMAIN rxn_orders |->
                                 IF i[1] = rxn /\ order_recorded(i[2], info)
                                 THEN info.rxn_orders[i[2]] ELSE rxn_orders[i]]
            /\ configured' = configured \cup {rxn}
            /\ isRxnBuilt' = TRUE
            /\ pc' = "idle"
            /\ UNCHANGED <<isBoundsSet, isTimesSet, isTempSet, isAgeSet, isGasSpecSet,
                           isSurfSpecSet, isSitesSet, isRxnSet, isConBuilt, isDiscrete,
                           dictVars, rxn_list, stateVars, loopVars, driverVars, histVars,
                           comps, all_species_set, outcome, rxnSets, Cb_in, Smax, eb, ew, gridParams>>

\* Mutation: no kinetic parameter is fixed
fix_all_pfix_none == pfix \cup {}

\* Mutation: only the Arrhenius parameters are fixed
fix_all_pfix_arrhenius ==
    pfix \cup {i \in AllParams : i[2] \in DOMAIN rxn_list /\ RxnKinds[i[2]] = "Arrhenius"}

fix_all_pfix == pfix \cup {i \in AllParams : i[2] \in DOMAIN rxn_list}

fix_all_reactions ==
    /\ Idle
    /\ call' = "fix_all_reactions" /\ args' = <<>>
    /\ IF ~isRxnSet THEN Crash
       ELSE /\ pfix' = fix_all_pfix
            /\ rxn_list' = [r \in DOMAIN rxn_list |-> [rxn_list[r] EXCEPT !.fixed = TRUE]]
            /\ pc' = "idle"
            /\ UNCHANGED <<flagVars, dictVars, bDefaulted, stateVars, loopVars, driverVars,
                           histVars, comps, all_species_set, configured, outcome, dataVars>>

fix_reaction(rxn) ==
    /\ Idle
    /\ call' = "fix_reaction" /\ args' = <<>>
    /\ IF ~isRxnSet THEN Crash
       ELSE /\ pfix' = pfix \cup ParamsOf(rxn)
            /\ rxn_list' = [rxn_list EXCEPT ![rxn].fixed = TRUE]
            /\ pc' = "idle"
            /\ UNCHANGED <<flagVars, dictVars, bDefaulted, stateVars, loopVars, driverVars,
                           histVars, comps, all_species_set, configured, outcome, dataVars>>

unfix_params(rxn) == ParamsOf(rxn)

unfix_reaction(rxn) ==
    /\ Idle
    /\ call' = "unfix_reaction" /\ args' = <<>>
    /\ IF ~isRxnSet THEN Crash
       ELSE /\ pfix' = pfix \ unfix_params(rxn)
            /\ rxn_list' = [rxn_list EXCEPT ![rxn].fixed = FALSE]
            /\ pc' = "idle"
            /\ UNCHANGED <<flagVars, dictVars, bDefaulted, stateVars, loopVars, driverVars,
                           histVars, comps, all_species_set, configured, outcome, dataVars>>

EquRxns == {r \in DOMAIN RxnKinds : RxnKinds[r] = "EquilibriumArrhenius"}

fix_all_equilibrium_relations ==
    /\ Idle
    /\ call' = "fix_all_equilibrium_relations" /\ args' = <<>>
    /\ IF ~isRxnSet THEN Crash
       ELSE /\ pfix' = pfix \cup {<<p, r>> : p \in {"dH", "dS"}, r \in EquRxns}
            /\ rxn_list' = [r \in DOMAIN rxn_list |->
                               IF r \in EquRxns THEN [rxn_list[r] EXCEPT !.fixed = TRUE]
                               ELSE rxn_list[r]]
            /\ pc' = "idle"
            /\ UNCHANGED <<flagVars, dictVars, bDefaulted, stateVars, loopVars, driverVars,
                           histVars, comps, all_species_set, configured, outcome, dataVars>>

fix_equilibrium_relation(rxn) ==
    /\ Idle
    /\ call' = "fix_equilibrium_relation" /\ args' = <<>>
    /\ IF ~isRxnSet THEN Crash
       ELSE /\ IF rxn \in EquRxns
               THEN /\ pfix' = pfix \cup {<<"dH", rxn>>, <<"dS", rxn>>}
                    /\ rxn_list' = [rxn_list EXCEPT ![rxn].fixed = TRUE]
               ELSE UNCHANGED <<pfix, rxn_list>>
            /\ pc' = "idle"
            /\ UNCHANGED <<flagVars, dictVars, bDefaulted, stateVars, loopVars, driverVars,
                           histVars, comps, all_species_set, configured, outcome, dataVars>>

----------------------------------------------------------------------------
\* Constraints and discretization

built_cons ==
    {"bulk_cons", "pore_cons"}
    \cup (IF isSurfSpecSet
          THEN {"surf_cons"} \cup (IF isSitesSet THEN {"site_cons"} ELSE {})
          ELSE {})

\* A rule raises after the constraint families fams have been built
RaiseAfter(fams) ==
    /\ outcome' = "crash"
    /\ comps' = comps \cup fams
    /\ active' = active \cup ConsOf(fams)
    /\ UNCHANGED <<flagVars, dictVars, kinVars, fixed, val, loopVars, driverVars,
                   histVars, all_species_set, configured, pc, dataVars>>

\* Building pore_cons/surf_cons evaluates every reaction's rate, which reads
\* <rxn>_reactants (missing for an unconfigured reaction) and u_q.
build_constraints ==
    /\ Ready /\ ~isConBuilt
    /\ call' = "build_constraints" /\ args' = <<>>
    /\ IF ~isRxnBuilt THEN Exit
       ELSE IF configured # DOMAIN rxn_list THEN RaiseAfter({"bulk_cons"})
       ELSE IF isSurfSpecSet /\ "u_q" \notin comps THEN RaiseAfter({"bulk_cons", "pore_cons"})
       ELSE /\ comps' = comps \cup built_cons
            /\ active' = active \cup ConsOf(built_cons)
            /\ isConBuilt' = TRUE
            /\ pc' = "idle"
            /\ UNCHANGED <<isBoundsSet, isTimesSet, isTempSet, isAgeSet, isGasSpecSet,
                           isSurfSpecSet, isSitesSet, isRxnSet, isRxnBuilt, isDiscrete,
                           dictVars, kinVars, fixed, val, loopVars, driverVars, histVars,
                           all_species_set, configured, outcome, dataVars>>

disc_eqs ==
    {"dCb_dz_disc_eq", "dCb_dt_disc_eq", "dC_dt_disc_eq"}
    \cup (IF "dq_dt" \in comps THEN {"dq_dt_disc_eq"} ELSE {})

\* Mutation: the derivative is pinned at the last time point
PinSel_lastTime(i) == i[1] = "dCb_dt" /\ i[5] = 1 /\ i[6] = NTimes

\* dCb_dt at (z.first(), t.first()), every species, age and temperature
PinSel(i) == i[1] = "dCb_dt" /\ i[5] = 1 /\ i[6] = 1

PinVars == {i \in AllVarIndex : PinSel(i)}

\* Mutation: the grid points keep the value they had before the discretization
rebroadcast_kept(param, first, i) == param[i]

\* The value of a Param at the first grid point, given to grid point i
rebroadcast(param, first, i) == param[first]

discretize_model ==
    /\ Ready /\ ~isDiscrete
    /\ call' = "discretize_model" /\ args' = <<>>
    /\ IF ~isConBuilt THEN Exit
       ELSE IF isSurfSpecSet /\ "u_q" \notin comps THEN Crash
       ELSE /\ comps' = comps \cup disc_eqs
            /\ active' = active \cup ConsOf(disc_eqs)
            /\ val' = [i \in AllVarIndex |-> IF PinSel(i) THEN 0 ELSE val[i]]
            /\ fixed' = fixed \cup PinVars
            /\ Cb_in' = [i \in DOMAIN Cb_in |-> rebroadcast(Cb_in, <<i[1], i[2], i[3], 1>>, i)]
            /\ T' = [i \in DOMAIN T |-> rebroadcast(T, <<i[1], i[2], 1>>, i)]
            /\ age_param' = [i \in DOMAIN age_param |-> rebroadcast(age_param, <<i[1], 1>>, i)]
            /\ Smax' = [i \in DOMAIN Smax |->
                           IF isSitesSet THEN rebroadcast(Smax, <<i[1], i[2], 1, 1>>, i)
                           ELSE Smax[i]]
            /\ u_C' = [i \in DOMAIN u_C |->
                          IF i[2] \in all_rxns THEN rebroadcast(u_C, <<i[1], i[2], 1>>, i)
                          ELSE u_C[i]]
            /\ u_q' = [i \in DOMAIN u_q |->
                          IF isSurfSpecSet /\ i[2] \in all_rxns
                          THEN rebroadcast(u_q, <<i[1], i[2], 1>>, i)
                          ELSE u_q[i]]
            /\ isDiscrete' = TRUE
            /\ pc' = "idle"
            /\ UNCHANGED <<isBoundsSet, isTimesSet, isTempSet, isAgeSet, isGasSpecSet,
                           isSurfSpecSet, isSitesSet, isRxnSet, isRxnBuilt, isConBuilt,
                           dictVars, kinVars, loopVars, driverVars, histVars,
                           all_species_set, configured, outcome, rxnSets, rxn_orders, pval,
                           eb, ew>>

----------------------------------------------------------------------------
\* Initial and boundary conditions. The driver takes the (age, temp) pairs in
\* reverse set order and calls, for a pair, set_const_IC for the gas species,
\* set_const_IC for the surface species (when declared) and set_const_BC, so
\* both a model with every condition set and one whose first pairs (the ones
\* solved first) have none are reached.

PairAge(k) == ((k - 1) \div NTemps) + 1
PairTemp(k) == ((k - 1) % NTemps) + 1

WithKey(dict, key, b) ==
    [s \in DOMAIN dict \cup {key} |-> IF s = key THEN b ELSE dict[s]]

\* Mutation: the initial condition leaves the first location to the boundary
ICSel_pastInlet(i, spec, age, temp) ==
    /\ i[1] \in (IF spec \in GasSpecies THEN {"Cb", "C"}
                 ELSE IF isSurfSpecSet /\ spec \in SurfSpecies THEN {"q"}
                 ELSE {})
    /\ i[2] = spec /\ i[3] = age /\ i[4] = temp /\ i[6] = 1 /\ i[5] # 1

\* The instances set_const_IC sets and fixes for spec at (age, temp)
ICSel(i, spec, age, temp) ==
    /\ i[1] \in (IF spec \in GasSpecies THEN {"Cb", "C"}
                 ELSE IF isSurfSpecSet /\ spec \in SurfSpecies THEN {"q"}
                 ELSE {})
    /\ i[2] = spec /\ i[3] = age /\ i[4] = temp /\ i[6] = 1

\* A concentration below the floor is stored as the floor
clamp(value) == IF value < Floor THEN Floor ELSE value

\* Mutation: initial conditions are accepted once the gas species exist
set_const_IC_guard_species == isGasSpecSet

\* "User should call the discretizer before setting initial conditions"
set_const_IC_guard == isDiscrete

set_const_IC(spec, age, temp, value) ==
    /\ Idle
    /\ call' = "set_const_IC" /\ args' = <<spec, age, temp, value>>
    /\ IF ~set_const_IC_guard THEN Exit
       ELSE IF value < 0 THEN Exit
       ELSE /\ val' = [i \in AllVarIndex |->
                          IF ICSel(i, spec, age, temp) THEN clamp(value) ELSE val[i]]
            /\ fixed' = fixed \cup {i \in AllVarIndex : ICSel(i, spec, age, temp)}
            /\ isInitialSet' = IF \/ spec \in GasSpecies
                                  \/ isSurfSpecSet /\ spec \in SurfSpecies
                                  \/ isSurfSpecSet /\ isSitesSet /\ spec \in SiteSpecies
                               THEN WithKey(isInitialSet, spec, TRUE) ELSE isInitialSet
            /\ pc' = "idle"
            /\ UNCHANGED <<flagVars, isBoundarySet, kinVars, active, loopVars,
                           histVars, comps, all_species_set, configured, outcome, dataVars>>

\* The instances set_const_BC sets and fixes: Cb at z.first(), every time
BCSel(i, spec, age, temp) ==
    i[1] = "Cb" /\ i[2] = spec /\ i[3] = age /\ i[4] = temp /\ i[5] = 1

set_const_BC(spec, age, temp, value) ==
    /\ Idle
    /\ call' = "set_const_BC" /\ args' = <<spec, age, temp, value>>
    /\ IF "gas_set" \notin comps THEN Crash
       ELSE IF spec \notin GasSpecies THEN Exit
       ELSE IF spec \notin DOMAIN isInitialSet THEN Crash
       ELSE IF ~isInitialSet[spec] THEN Exit
       ELSE IF value < 0 THEN Exit
       ELSE /\ Cb_in' = [i \in DOMAIN Cb_in |->
                            IF i[1] = spec /\ i[2] = age /\ i[3] = temp THEN clamp(value)
                            ELSE Cb_in[i]]
            /\ val' = [i \in AllVarIndex |->
                          IF BCSel(i, spec, age, temp) THEN clamp(value) ELSE val[i]]
            /\ fixed' = fixed \cup {i \in AllVarIndex : BCSel(i, spec, age, temp)}
            /\ isBoundarySet' = WithKey(isBoundarySet, spec, TRUE)
            /\ pc' = "idle"
            /\ UNCHANGED <<flagVars, isInitialSet, kinVars, active, loopVars, histVars,
                           comps, all_species_set, configured, outcome, rxnSets,
                           u_C, u_q, rxn_orders, pval, Smax, eb, ew, gridParams>>

\* The driver's cursor moves when its call returns
Advance(step, pairs) ==
    IF outcome' = "running" THEN drvStep' = step /\ drvPairs' = pairs ELSE TRUE

\* A call made outside the driver's loop over the pairs
NoDriver == Advance(drvStep, drvPairs)

DriverIC ==
    /\ pc = "idle" /\ drvPairs < NPairs /\ drvStep \in {"ic_gas", "ic_surf"}
    /\ \E spec \in (IF drvStep = "ic_gas" THEN GasSpecies ELSE SurfSpecies), value \in ICValues :
          /\ set_const_IC(spec, PairAge(NPairs - drvPairs), PairTemp(NPairs - drvPairs), value)
          /\ Advance(IF spec \in GasSpecies /\ isSurfSpecSet THEN "ic_surf" ELSE "bc", drvPairs)

DriverBC ==
    /\ pc = "idle" /\ drvPairs < NPairs /\ drvStep = "bc"
    /\ \E spec \in GasSpecies, value \in BCValues :
          /\ set_const_BC(spec, PairAge(NPairs - drvPairs), PairTemp(NPairs - drvPairs), value)
          /\ Advance("ic_gas", drvPairs + 1)

----------------------------------------------------------------------------
\* Time dependent boundary conditions. The grid times are TimeStep apart from
\* 0; a pair is <<time, value>>.

TimeStep == 2
GridTime(k) == TimeStep * (k - 1)

\* The loop over model.t from grid time k on: the values handed to set_value,
\* in order. i is the index into the pairs, cbt and cbv are current_bc_time
\* and current_bc_value. An index past the list and the exit() on a negative
\* value are both swallowed by the bare except.
RECURSIVE bc_loop(_, _, _, _, _)
bc_loop(pairs, k, i, cbt, cbv) ==
    IF k > NTimes THEN <<>>
    ELSE IF GridTime(k) >= cbt
         THEN LET v1 == IF i <= Len(pairs) THEN pairs[i][2] ELSE cbv
                  v2 == IF v1 >= 0 /\ v1 < Floor THEN Floor ELSE v1
                  t2 == IF i + 1 <= Len(pairs) THEN pairs[i + 1][1] ELSE cbt
              IN  <<v2>> \o bc_loop(pairs, k + 1, i + 1, t2, v2)
         ELSE <<cbv>> \o bc_loop(pairs, k + 1, i, cbt, cbv)

bc_values(pairs) == bc_loop(pairs, 1, 1, pairs[1][1], pairs[1][2])

\* The first grid time whose value the Cb_in Param (within NonNegativeReals)
\* refuses, NTimes + 1 when there is none
bc_raises(pairs) ==
    LET w == bc_values(pairs)
    IN  IF \E k \in Times : w[k] < 0 THEN CHOOSE k \in Times : w[k] < 0 /\ \A j \in 1..(k - 1) : w[j] >= 0
        ELSE NTimes + 1

set_time_dependent_BC(spec, age, temp, time_value_pairs, initial_value) ==
    /\ Idle
    /\ call' = "set_time_dependent_BC"
    /\ args' = <<spec, age, temp, time_value_pairs, initial_value>>
    /\ IF "gas_set" \notin comps THEN Crash
       ELSE IF spec \notin GasSpecies THEN Exit
       ELSE IF spec \notin DOMAIN isInitialSet THEN Crash
       ELSE IF ~isInitialSet[spec] THEN Exit
       ELSE IF initial_value < 0 THEN Exit
       ELSE LET w == bc_values(time_value_pairs)
                stop == bc_raises(time_value_pairs)
            IN  /\ Cb_in' = [i \in DOMAIN Cb_in |->
                                IF i[1] = spec /\ i[2] = age /\ i[3] = temp
                                THEN IF i[4] < stop THEN w[i[4]]
                                     ELSE IF i[4] = 1 THEN clamp(initial_value) ELSE Cb_in[i]
                                ELSE Cb_in[i]]
                /\ val' = [i \in AllVarIndex |->
                              IF BCSel(i, spec, age, temp) /\ i[6] < stop THEN w[i[6]] ELSE val[i]]
                /\ fixed' = fixed \cup {i \in AllVarIndex : BCSel(i, spec, age, temp) /\ i[6] < stop}
                /\ IF stop <= NTimes
                   THEN outcome' = "crash" /\ UNCHANGED isBoundarySet
                   ELSE isBoundarySet' = WithKey(isBoundarySet, spec, TRUE) /\ UNCHANGED outcome
                /\ pc' = "idle"
                /\ UNCHANGED <<flagVars, isInitialSet, kinVars, active, loopVars, driverVars,
                               histVars, comps, all_species_set, configured, rxnSets,
                               u_C, u_q, rxn_orders, pval, Smax, eb, ew, gridParams>>

----------------------------------------------------------------------------
\* Parameters

set_site_density(site, age, value) ==
    /\ Idle
    /\ call' = "set_site_density" /\ args' = <<site, age, value>>
    /\ IF ~isSitesSet THEN Exit
       ELSE IF value < 0 THEN Exit
       ELSE /\ Smax' = [i \in DOMAIN Smax |->
                           IF /\ i[1] = site /\ i[2] = age
                              /\ i[3] \in ZPoints /\ i[4] \in TPoints
                           THEN clamp(value) ELSE Smax[i]]
            /\ pc' = "idle"
            /\ UNCHANGED <<flagVars, dictVars, kinVars, stateVars, loopVars, driverVars,
                           histVars, comps, all_species_set, configured, outcome, rxnSets,
                           u_C, u_q, rxn_orders, pval, Cb_in, eb, ew, gridParams>>

set_isothermal_temp(age, temp, value) ==
    /\ Idle
    /\ call' = "set_isothermal_temp" /\ args' = <<age, temp, value>>
    /\ IF "T" \notin comps THEN Crash
       ELSE /\ T' = [i \in DOMAIN T |->
                        IF i[1] = age /\ i[2] = temp /\ i[3] \in TPoints THEN value ELSE T[i]]
            /\ pc' = "idle"
            /\ UNCHANGED <<flagVars, dictVars, kinVars, stateVars, loopVars, driverVars,
                           histVars, comps, all_species_set, configured, outcome, rxnSets,
                           paramVars, age_param>>

set_bulk_porosity(v) ==
    /\ Idle
    /\ call' = "set_bulk_porosity" /\ args' = <<v>>
    /\ IF v > PorosityOne \/ v < 0 THEN Exit
       ELSE /\ eb' = v
            /\ pc' = "idle"
            /\ UNCHANGED <<flagVars, dictVars, kinVars, stateVars, loopVars, driverVars,
                           histVars, comps, all_species_set, configured, outcome, rxnSets,
                           u_C, u_q, rxn_orders, pval, Cb_in, Smax, ew, gridParams>>

set_washcoat_porosity(v) ==
    /\ Idle
    /\ call' = "set_washcoat_porosity" /\ args' = <<v>>
    /\ IF v > PorosityOne \/ v < 0 THEN Exit
       ELSE /\ ew' = v
            /\ pc' = "idle"
            /\ UNCHANGED <<flagVars, dictVars, kinVars, stateVars, loopVars, driverVars,
                           histVars, comps, all_species_set, configured, outcome, rxnSets,
                           u_C, u_q, rxn_orders, pval, Cb_in, Smax, eb, gridParams>>

----------------------------------------------------------------------------
\* Reaction zones. A location is its grid index.

\* Mutation: the ends are taken in the order given
start_loc_asGiven(zone) == zone[1]

\* Mutation: the coefficient is set to one
zone_value_unit(old) == 1

\* Mutation: the coefficient is negated
zone_value_negated(old) == 0 - old

\* The value set_reaction_zone stores over the old one
zone_value(old) == 0

\* The interval of the zone tuple, the smaller end first
start_loc(zone) == IF zone[1] > zone[2] THEN zone[2] ELSE zone[1]
end_loc(zone) == IF zone[1] > zone[2] THEN zone[1] ELSE zone[2]

\* The locations whose coefficients set_reaction_zone sets to 0
zeroed(loc, zone, isNotActive) ==
    (loc >= start_loc(zone) /\ loc <= end_loc(zone)) = isNotActive

set_reaction_zone(rxn, zone, isNotActive) ==
    /\ Idle
    /\ call' = "set_reaction_zone" /\ args' = <<rxn, zone, isNotActive>>
    /\ IF ~isDiscrete THEN Exit
       ELSE IF rxn \notin all_rxns THEN Exit
       ELSE /\ u_C' = [i \in DOMAIN u_C |->
                          IF i[2] = rxn /\ zeroed(i[3], zone, isNotActive)
                          THEN zone_value(u_C[i]) ELSE u_C[i]]
            /\ u_q' = [i \in DOMAIN u_q |->
                          IF isSurfSpecSet /\ i[2] = rxn /\ zeroed(i[3], zone, isNotActive)
                          THEN zone_value(u_q[i]) ELSE u_q[i]]
            /\ pc' = "idle"
            /\ UNCHANGED <<flagVars, dictVars, kinVars, stateVars, loopVars, driverVars,
                           histVars, comps, all_species_set, configured, outcome, rxnSets,
                           rxn_orders, pval, Cb_in, Smax, eb, ew, gridParams>>

----------------------------------------------------------------------------
\* initialize_simulator

\* The families the fix/unfix and deactivate/activate statements name
\* Mutation: the site variables are not held
HeldVarFams_noSites == GasFams \cup (IF isSurfSpecSet THEN SurfFams ELSE {})

HeldVarFams ==
    GasFams
    \cup (IF isSurfSpecSet
          THEN SurfFams \cup (IF isSitesSet THEN SiteFams ELSE {})
          ELSE {})

HeldConFams ==
    GasCons
    \cup (IF isSurfSpecSet
          THEN SurfCons \cup (IF isSitesSet THEN SiteCons ELSE {})
          ELSE {})

\* Naming a family that is not a component of the model raises AttributeError.
MissingFams == (HeldVarFams \cup HeldConFams) \ comps

\* Mutation: the boundary values are not fixed again
PersistentSel_noBC(i) ==
    \/ i[1] = "dCb_dt" /\ i[5] = 1 /\ i[6] = 1
    \/ i[1] \in {"Cb", "C"} /\ i[6] = 1
    \/ isSurfSpecSet /\ i[1] = "q" /\ i[6] = 1

\* Mutation: the pin of dCb_dt is not fixed again
PersistentSel_noPin(i) ==
    \/ i[1] \in {"Cb", "C"} /\ i[6] = 1
    \/ isSurfSpecSet /\ i[1] = "q" /\ i[6] = 1
    \/ i[1] = "Cb" /\ i[5] = 1

\* "Fix ICs, BCs, and dCb_dt @ z=0, t=0"
PersistentSel(i) ==
    \/ i[1] = "dCb_dt" /\ i[5] = 1 /\ i[6] = 1
    \/ i[1] \in {"Cb", "C"} /\ i[6] = 1
    \/ isSurfSpecSet /\ i[1] = "q" /\ i[6] = 1
    \/ i[1] = "Cb" /\ i[5] = 1

PersistentVars == {i \in AllVarIndex : PersistentSel(i)}

\* [:, age_hold, :, :, :] for age_hold # age_solve and
\* [:, :, temp_hold, :, :] for temp_hold # temp_solve
PairHoldSel(i) == i[3] # age_solve \/ i[4] # temp_solve

\* Mutation: only the times before time_solve are held
TimeHoldSel_earlier(i) == i[6] < time_solve

\* Mutation: only the times after time_solve are held
TimeHoldSel_later(i) == i[6] > time_solve

\* [:, :, :, :, time_hold] for time_hold # time_solve
TimeHoldSel(i) == i[6] # time_solve

\* Mutation: only the times before time_solve are released
RestoresTime_earlier(th) == th < time_solve

\* Mutation: the times are released only after a solve that converged
RestoresTime_whenConverged(th) == th # time_solve /\ results = "optimal"

\* "if time_solve != time_hold" of the loop that unfixes all times
RestoresTime(th) == th # time_solve

\* Mutation: the times are released for every age and temperature
TimeRestoreSel_everyPair(i) == i[6] = time_hold

\* [:, age_solve, temp_solve, :, time_hold]
TimeRestoreSel(i) == i[3] = age_solve /\ i[4] = temp_solve /\ i[6] = time_hold

\* Mutation: the time loop solves from the first time point on
FirstSolveTime_first == 2 - 1

\* "if i > 0": the time loop solves from the second time point on
FirstSolveTime == 2

\* The bookkeeping state at the call; again: the call follows a returned
\* initialize_simulator call directly
Snapshot ==
    [fixed |-> fixed, active |-> active, val |-> val, pfix |-> pfix,
     again |-> (call = "initialize_simulator" /\ pc = "done")]

initialize_simulator ==
    /\ Idle
    /\ call' = "initialize_simulator" /\ args' = <<>>
    /\ IF "gas_set" \notin comps THEN Crash
       ELSE IF \E spec \in GasSpecies : ~isBoundarySet[spec] THEN Exit
       ELSE /\ fixed_dict' = [rxn \in DOMAIN rxn_list |-> rxn_list[rxn].fixed]
            /\ pfix' = fix_all_pfix
            /\ rxn_list' = [r \in DOMAIN rxn_list |-> [rxn_list[r] EXCEPT !.fixed = TRUE]]
            /\ pre' = Snapshot
            /\ solves' = <<>>
            /\ results' = "none"
            /\ age_solve' = 1 /\ temp_solve' = 1 /\ time_solve' = 1 /\ time_hold' = 1
            /\ pc' = "hold_pair"
            /\ UNCHANGED <<flagVars, dictVars, bDefaulted, stateVars, driverVars, comps,
                           all_species_set, configured, outcome, dataVars>>

\* Fix all ages and temps not currently being solved for
HoldPair ==
    /\ Running /\ pc = "hold_pair"
    /\ IF (NAges > 1 \/ NTemps > 1) /\ MissingFams # {} THEN Crash /\ UNCHANGED <<call, args>>
       ELSE /\ fixed' = fixed \cup {i \in AllVarIndex : i[1] \in HeldVarFams /\ PairHoldSel(i)}
            /\ active' = active \ {c \in AllConIndex : c[1] \in HeldConFams /\ PairHoldSel(c)}
            /\ IF NTimes >= FirstSolveTime
               THEN pc' = "hold_time" /\ time_solve' = FirstSolveTime
               ELSE pc' = "unfix_pair" /\ time_solve' = time_solve
            /\ UNCHANGED <<flagVars, dictVars, kinVars, val, age_solve, temp_solve,
                           time_hold, fixed_dict, driverVars, histVars, comps,
                           all_species_set, configured, outcome, dataVars, call, args>>

\* Fix all times not associated with current time step
HoldTime ==
    /\ Running /\ pc = "hold_time"
    /\ IF MissingFams # {} THEN Crash /\ UNCHANGED <<call, args>>
       ELSE /\ fixed' = fixed \cup {i \in AllVarIndex : i[1] \in HeldVarFams /\ TimeHoldSel(i)}
            /\ active' = active \ {c \in AllConIndex : c[1] \in HeldConFams /\ TimeHoldSel(c)}
            /\ pc' = "solve"
            /\ UNCHANGED <<flagVars, dictVars, kinVars, val, loopVars, driverVars, histVars,
                           comps, all_species_set, configured, outcome, dataVars, call, args>>

\* solver.solve(self.model): the solver writes every variable that is not
\* fixed, with one of the values it can produce, and returns its results, with
\* the termination it reached
solve_slice(termination, values) ==
    /\ Running /\ pc = "solve"
    /\ results' = termination
    /\ \E v \in values :
          val' = [i \in AllVarIndex |-> IF i[1] \in comps /\ i \notin fixed THEN v ELSE val[i]]
    /\ solves' = Append(solves, <<age_solve, temp_solve, time_solve>>)
    /\ pc' = "restore_unfix" /\ time_hold' = 1
    /\ UNCHANGED <<flagVars, dictVars, kinVars, fixed, active, age_solve, temp_solve,
                   time_solve, fixed_dict, driverVars, pre, comps, all_species_set,
                   configured, outcome, dataVars, call, args>>

\* The solver converges
Solve == solve_slice("optimal", SolverValues)

\* The solver returns without having converged
SolveUnconverged == solve_slice("infeasible", SolverValues)

\* solver.solve raises (the executable is missing or fails): the exception
\* leaves initialize_simulator, which has no handler
SolveRaises ==
    /\ Running /\ pc = "solve"
    /\ Crash
    /\ UNCHANGED <<call, args>>

\* The value a solver that tells its solves apart produces at its k-th solve
SliceValue(k) == 10 + k

\* The solver converges, on values that differ from one solve to the next
SolveDistinct == solve_slice("optimal", {SliceValue(Len(solves) + 1)})

\* Unfix all times: one pass of the loop over time_hold releases the instances
\* of the solved pair at time_hold
RestoreUnfix ==
    /\ Running /\ pc = "restore_unfix"
    /\ IF RestoresTime(time_hold)
       THEN /\ fixed' = fixed \ {i \in AllVarIndex : i[1] \in HeldVarFams /\ TimeRestoreSel(i)}
            /\ active' = active \cup {c \in AllConIndex : c[1] \in HeldConFams /\ TimeRestoreSel(c)}
       ELSE UNCHANGED <<fixed, active>>
    /\ pc' = "restore_refix"
    /\ UNCHANGED <<flagVars, dictVars, kinVars, val, loopVars, driverVars, histVars, comps,
                   all_species_set, configured, outcome, dataVars, call, args>>

\* Make sure the vars that should be fixed, are fixed (at the end of each pass);
\* next time_hold, else next time_solve, else the end of the time loop
RestoreRefix ==
    /\ Running /\ pc = "restore_refix"
    /\ fixed' = fixed \cup PersistentVars
    /\ IF time_hold < NTimes
       THEN pc' = "restore_unfix" /\ time_hold' = time_hold + 1 /\ time_solve' = time_solve
       ELSE IF time_solve < NTimes
       THEN pc' = "hold_time" /\ time_solve' = time_solve + 1 /\ time_hold' = time_hold
       ELSE pc' = "unfix_pair" /\ UNCHANGED <<time_solve, time_hold>>
    /\ UNCHANGED <<flagVars, dictVars, kinVars, active, val, age_solve, temp_solve,
                   fixed_dict, driverVars, histVars, comps, all_species_set, configured,
                   outcome, dataVars, call, args>>

\* Mutation: only the other ages are released
PairUnfixSel_agesOnly(i) == i[3] # age_solve

\* [:, age_hold, :, :, :] for age_hold # age_solve, then
\* [:, :, temp_hold, :, :] for temp_hold # temp_solve
PairUnfixSel(i) == i[3] # age_solve \/ i[4] # temp_solve

\* Unfix all ages and temps
UnfixPair ==
    /\ Running /\ pc = "unfix_pair"
    /\ fixed' = fixed \ {i \in AllVarIndex : i[1] \in HeldVarFams /\ PairUnfixSel(i)}
    /\ active' = active \cup {c \in AllConIndex : c[1] \in HeldConFams /\ PairUnfixSel(c)}
    /\ pc' = "refix_pair"
    /\ UNCHANGED <<flagVars, dictVars, kinVars, val, loopVars, driverVars, histVars, comps,
                   all_species_set, configured, outcome, dataVars, call, args>>

\* Make sure the vars that should be fixed, are fixed; next (age, temp) pair
RefixPair ==
    /\ Running /\ pc = "refix_pair"
    /\ fixed' = fixed \cup PersistentVars
    /\ IF temp_solve < NTemps
       THEN pc' = "hold_pair" /\ temp_solve' = temp_solve + 1 /\ age_solve' = age_solve
       ELSE IF age_solve < NAges
       THEN pc' = "hold_pair" /\ temp_solve' = 1 /\ age_solve' = age_solve + 1
       ELSE pc' = "finish" /\ temp_solve' = temp_solve /\ age_solve' = age_solve
    /\ UNCHANGED <<flagVars, dictVars, kinVars, active, val, time_solve, time_hold, fixed_dict,
                   driverVars, histVars, comps, all_species_set, configured, outcome, dataVars, call, args>>

\* Mutation: the closing loop unfixes the reactions that were fixed at the call
ToUnfix_wereFixed == {rxn \in DOMAIN fixed_dict : fixed_dict[rxn] = TRUE}

\* The reactions the closing loop hands to unfix_reaction
ToUnfix == {rxn \in DOMAIN fixed_dict : fixed_dict[rxn] = FALSE}

\* After solve, unfix specified reactions
Finish ==
    /\ Running /\ pc = "finish"
    /\ pfix' = pfix \ UNION {unfix_params(rxn) : rxn \in ToUnfix}
    /\ rxn_list' = [r \in DOMAIN rxn_list |->
                       IF r \in ToUnfix THEN [rxn_list[r] EXCEPT !.fixed = FALSE]
                       ELSE rxn_list[r]]
    /\ pc' = "done"
    /\ UNCHANGED <<flagVars, dictVars, bDefaulted, stateVars, loopVars, driverVars, histVars,
                   comps, all_species_set, configured, outcome, dataVars, call, args>>

\* run_solver(): without an objective every kinetic parameter is fixed, and
\* the solver is run once on the whole model
run_solver ==
    /\ Idle
    /\ call' = "run_solver" /\ args' = <<>>
    /\ IF "gas_set" \notin comps THEN Crash
       ELSE IF \E spec \in GasSpecies : ~isBoundarySet[spec] THEN Exit
       ELSE /\ pfix' = fix_all_pfix
            /\ rxn_list' = [r \in DOMAIN rxn_list |-> [rxn_list[r] EXCEPT !.fixed = TRUE]]
            /\ \E v \in SolverValues :
                  val' = [i \in AllVarIndex |->
                             IF i[1] \in comps /\ i \notin fixed THEN v ELSE val[i]]
            /\ pc' = "idle"
            /\ UNCHANGED <<flagVars, dictVars, bDefaulted, fixed, active, loopVars,
                           driverVars, histVars, comps, all_species_set, configured, outcome, dataVars>>

----------------------------------------------------------------------------
\* Specifications

Setup ==
    \/ add_axial_dim
    \/ add_temporal_dim
    \/ add_age_set
    \/ add_temperature_set
    \/ add_gas_species
    \/ add_surface_species
    \/ add_surface_sites
    \/ add_reactions
    \/ build_constraints
    \/ discretize_model

Staged ==
    \/ initialize_simulator
    \/ HoldPair
    \/ HoldTime
    \/ Solve
    \/ RestoreUnfix
    \/ RestoreRefix
    \/ UnfixPair
    \/ RefixPair
    \/ Finish

\* The staged solve over every setup, with every reaction configured with a B
Next ==
    \/ Setup
    \/ \E rxn \in DOMAIN RxnKinds : set_reaction_info(rxn, InfoWithB)
    \/ DriverIC
    \/ DriverBC
    \/ Staged

Spec == Init /\ [][Next]_vars

\* The kinetic calls, made on a model whose conditions are all set, between
\* solves; reactions are configured with or without a B
KinReady == drvPairs = NPairs

KinSetup ==
    \/ add_axial_dim
    \/ add_temporal_dim
    \/ add_age_set
    \/ add_temperature_set
    \/ add_gas_species
    \/ add_reactions
    \/ build_constraints
    \/ discretize_model

call_fix_all_reactions == KinReady /\ fix_all_reactions
call_fix_reaction == KinReady /\ \E rxn \in DOMAIN RxnKinds : fix_reaction(rxn)
call_unfix_reaction == KinReady /\ \E rxn \in DOMAIN RxnKinds : unfix_reaction(rxn)
call_fix_all_equilibrium_relations == KinReady /\ fix_all_equilibrium_relations
call_fix_equilibrium_relation ==
    KinReady /\ \E rxn \in DOMAIN RxnKinds : fix_equilibrium_relation(rxn)
call_run_solver == KinReady /\ run_solver

KinNext ==
    \/ KinSetup
    \/ \E rxn \in DOMAIN RxnKinds, info \in {InfoWithB, InfoNoB} : set_reaction_info(rxn, info)
    \/ DriverIC
    \/ DriverBC
    \/ call_fix_all_reactions
    \/ call_fix_reaction
    \/ call_unfix_reaction
    \/ call_fix_all_equilibrium_relations
    \/ call_fix_equilibrium_relation
    \/ call_run_solver
    \/ Staged

SpecKin == Init /\ [][KinNext]_vars

\* The setup calls in any order, each also before its prerequisite, with
\* reaction dictionaries and info dictionaries that are and are not accepted
SetupInfos ==
    {InfoWithB, InfoNoB}
    \cup {MakeInfo(FieldNames \ {f}, ParamsWithB, [g |-> 1], [g |-> 2, s |-> 1],
                   [g |-> 2, s |-> 3, x |-> 4]) : f \in FieldNames}

call_add_reactions == \E rxns \in {RxnKinds, BadRxnKinds} : add_reactions_of(rxns)
call_set_reaction_info ==
    \E rxn \in RxnNames \cup {"r9"}, info \in SetupInfos : set_reaction_info(rxn, info)
call_set_const_IC ==
    \E spec \in GasSpecies \cup SurfSpecies, value \in ICValues :
        set_const_IC(spec, 1, 1, value) /\ NoDriver
call_set_const_BC ==
    \E spec \in GasSpecies, value \in BCValues : set_const_BC(spec, 1, 1, value) /\ NoDriver
call_set_reaction_zone ==
    \E rxn \in RxnNames : set_reaction_zone(rxn, <<1, 2>>, FALSE)

SetupNext ==
    \/ add_axial_dim
    \/ add_temporal_dim
    \/ add_age_set
    \/ add_temperature_set
    \/ add_gas_species
    \/ add_surface_species
    \/ add_surface_sites
    \/ call_add_reactions
    \/ call_set_reaction_info
    \/ build_constraints
    \/ discretize_model
    \/ call_set_const_IC
    \/ call_set_const_BC
    \/ call_set_reaction_zone

SpecSetup == Init /\ [][SetupNext]_vars

\* Reactions configured with every pair of reactant and product
\* stoichiometries, discretized and zoned
StoichInfos ==
    {MakeInfo(FieldNames, ParamsWithB, r, p, [g |-> 2, s |-> 3, x |-> 4]) :
        r \in ReactantMaps, p \in ProductMaps}

call_set_stoichiometry ==
    \E rxn \in RxnNames, info \in StoichInfos : set_reaction_info(rxn, info)
call_zone_after_stoichiometry ==
    \E rxn \in RxnNames, isNotActive \in BOOLEAN : set_reaction_zone(rxn, <<2, 2>>, isNotActive)

StoichNext ==
    \/ add_axial_dim
    \/ add_temporal_dim
    \/ add_age_set
    \/ add_temperature_set
    \/ add_gas_species
    \/ add_surface_species
    \/ add_surface_sites
    \/ add_reactions
    \/ call_set_stoichiometry
    \/ build_constraints
    \/ discretize_model
    \/ call_zone_after_stoichiometry

SpecStoich == Init /\ [][StoichNext]_vars

\* Zones with ends on and beyond the grid, in both orders, for a declared and
\* an undeclared reaction
ZoneEnds == {1, 2, NLocs + 1}

call_set_reaction_zone_any ==
    \E rxn \in RxnNames \cup {"r9"}, a \in ZoneEnds, b \in ZoneEnds, isNotActive \in BOOLEAN :
        set_reaction_zone(rxn, <<a, b>>, isNotActive)

ZoneNext ==
    \/ add_axial_dim
    \/ add_temporal_dim
    \/ add_age_set
    \/ add_temperature_set
    \/ add_gas_species
    \/ add_surface_species
    \/ add_reactions
    \/ \E rxn \in RxnNames : set_reaction_info(rxn, InfoWithB)
    \/ build_constraints
    \/ discretize_model
    \/ call_set_reaction_zone_any

SpecZone == Init /\ [][ZoneNext]_vars

\* Time dependent boundary conditions on a discretized model with gas
\* species: lists of one and two pairs, sorted and not, with times on and
\* between the grid times and after the first one, and values of zero and above
PairTimes == {0, 1, 2}
PairLists ==
    {<<p>> : p \in PairTimes \X {0, 5}}
    \cup {<<p, q>> : p \in PairTimes \X {0, 5}, q \in PairTimes \X {0, 5}}

call_set_gas_IC ==
    \E spec \in GasSpecies, value \in ICValues : set_const_IC(spec, 1, 1, value) /\ NoDriver
call_set_time_dependent_BC ==
    \E spec \in GasSpecies, pairs \in PairLists :
        set_time_dependent_BC(spec, 1, 1, pairs, Floor)

BCNext ==
    \/ add_axial_dim
    \/ add_temporal_dim
    \/ add_age_set
    \/ add_temperature_set
    \/ add_gas_species
    \/ add_reactions
    \/ \E rxn \in RxnNames : set_reaction_info(rxn, InfoWithB)
    \/ build_constraints
    \/ discretize_model
    \/ call_set_gas_IC
    \/ call_set_time_dependent_BC

SpecBC == Init /\ [][BCNext]_vars

\* The setters of concentrations, site densities and porosities, called on a
\* discretized model with gas species, surface species and sites, with values
\* that are negative, zero and ordinary, and a positive one below the floor
SettersReady == isDiscrete /\ isSitesSet /\ "u_q" \in comps
SetterValues == {0 - 1, 0, 5}
SinglePairs == {<<p>> : p \in {0, 1} \X SetterValues}
PorosityValues == {0 - 1, PorosityOne, PorosityOne + 1}

call_set_const_IC_value ==
    /\ SettersReady
    /\ \E spec \in GasSpecies \cup SurfSpecies, value \in SetterValues :
          set_const_IC(spec, 1, 1, value) /\ NoDriver
call_set_const_BC_value ==
    /\ SettersReady
    /\ \E spec \in GasSpecies, value \in SetterValues \cup {1} :
          set_const_BC(spec, 1, 1, value) /\ NoDriver
call_set_time_dependent_BC_value ==
    /\ SettersReady
    /\ \E spec \in GasSpecies, pairs \in SinglePairs, initial_value \in {0 - 1, 1} :
          set_time_dependent_BC(spec, 1, 1, pairs, initial_value)
call_set_site_density ==
    /\ SettersReady
    /\ \E site \in SiteSpecies, value \in SetterValues : set_site_density(site, 1, value)
call_set_bulk_porosity == SettersReady /\ \E v \in PorosityValues : set_bulk_porosity(v)
call_set_washcoat_porosity == SettersReady /\ \E v \in PorosityValues : set_washcoat_porosity(v)

SetterNext ==
    \/ add_axial_dim
    \/ add_temporal_dim
    \/ add_age_set
    \/ add_temperature_set
    \/ add_gas_species
    \/ add_surface_species
    \/ add_surface_sites
    \/ add_reactions
    \/ \E rxn \in RxnNames : set_reaction_info(rxn, InfoWithB)
    \/ build_constraints
    \/ discretize_model
    \/ call_set_const_IC_value
    \/ call_set_const_BC_value
    \/ call_set_time_dependent_BC_value
    \/ call_set_site_density
    \/ call_set_bulk_porosity
    \/ call_set_washcoat_porosity

SpecSetters == Init /\ [][SetterNext]_vars

----------------------------------------------------------------------------
\* Properties of the staged solve

\* The families of the model as declared: the surface families with surface
\* species, the site family with surface sites
DeclaredVarFams ==
    GasFams \cup (IF isSurfSpecSet THEN SurfFams ELSE {}) \cup (IF isSitesSet THEN SiteFams ELSE {})

DeclaredConFams ==
    GasCons \cup (IF isSurfSpecSet THEN SurfCons ELSE {}) \cup (IF isSitesSet THEN SiteCons ELSE {})

InSlice(i) == i[3] = age_solve /\ i[4] = temp_solve /\ i[6] = time_solve

AtSolve == Running /\ pc = "solve"

\* C1: at every solver invocation, every instance of the declared variable
\* families whose age, temperature or time differs from (age_solve, temp_solve,
\* time_solve) is fixed, and every instance of the declared constraint families
\* with such an index is deactivated.
C1_OthersHeldAtSolve ==
    AtSolve =>
        /\ \A i \in AllVarIndex : i[1] \in DeclaredVarFams /\ ~InSlice(i) => i \in fixed
        /\ \A c \in AllConIndex : c[1] \in DeclaredConFams /\ ~InSlice(c) => c \notin active

\* A solve of the last pair at the last time of a model with surface species
\* and sites: held instances lie on either side in every coordinate
C1_Witness ==
    /\ AtSolve /\ isSurfSpecSet /\ isSitesSet
    /\ age_solve = NAges /\ temp_solve = NTemps /\ time_solve = NTimes
    /\ \E i \in fixed : i[1] = "S" /\ i[3] # age_solve
    /\ \E c \in AllConIndex \ active : c[1] = "site_cons" /\ c[6] # time_solve

\* C9: at each solve the model is partitioned: the constraints of the slice
\* (age_solve, temp_solve, time_solve) are active and its variables are free,
\* except Cb at the first location; every instance outside the slice is held.
C9_PartitionAtSolve ==
    AtSolve =>
        /\ \A i \in AllVarIndex : i[1] \in DeclaredVarFams =>
               IF InSlice(i)
               THEN (i[1] = "Cb" /\ i[5] = 1) \/ i \notin fixed
               ELSE i \in fixed
        /\ \A c \in AllConIndex : c[1] \in DeclaredConFams =>
               (InSlice(c) <=> c \in active)

\* A solve, after the first one, whose slice has free variables and active
\* constraints while other pairs and times are held
C9_Witness ==
    /\ AtSolve /\ Len(solves) > 0
    /\ \E i \in AllVarIndex : i[1] = "C" /\ InSlice(i) /\ i \notin fixed
    /\ \E c \in active : c[1] = "pore_cons" /\ InSlice(c)
    /\ \E i \in fixed : i[1] = "C" /\ ~InSlice(i) /\ i[6] > 1

\* initialize_simulator has returned
Returned == Running /\ pc = "done"

\* initialize_simulator is between its guard and its return
InCall == Running /\ pc \in {"hold_pair", "hold_time", "solve", "restore_unfix",
                              "restore_refix", "unfix_pair", "refix_pair", "finish"}

\* The instances holding initial conditions and boundary values
IsIC(i) == (i[1] \in {"Cb", "C"} /\ i[6] = 1) \/ (isSurfSpecSet /\ i[1] = "q" /\ i[6] = 1)
IsBC(i) == i[1] = "Cb" /\ i[5] = 1
IsPin(i) == i[1] = "dCb_dt" /\ i[5] = 1 /\ i[6] = 1

\* The call was made on a model with initial and boundary conditions for every
\* species, age and temperature: each of their instances was fixed
AllConditionsSet == \A i \in AllVarIndex : IsIC(i) \/ IsBC(i) => i \in pre.fixed

\* C2 as stated: when initialize_simulator has returned, the fixed flag of every
\* variable instance and the active flag of every constraint instance are what
\* they were immediately before the call.
C2_FlagsRestored == Returned => fixed = pre.fixed /\ active = pre.active

\* C3: for a model whose initial and boundary conditions were set, when
\* initialize_simulator has returned, Cb and C at the first time, q at the first
\* time and Cb at the first location are fixed and hold the values they held
\* before the call, and dCb_dt at (first location, first time) is fixed before
\* and after the call.
C3_ConditionsKept ==
    Returned /\ AllConditionsSet =>
        \A i \in AllVarIndex :
            /\ IsIC(i) \/ IsBC(i) => i \in fixed /\ val[i] = pre.val[i]
            /\ IsPin(i) => i \in pre.fixed /\ i \in fixed

\* A return from a call on a fully conditioned model with surface species, in
\* which the solver has written variables
C3_Witness ==
    /\ Returned /\ AllConditionsSet /\ drvPairs = NPairs /\ isSurfSpecSet
    /\ \E i \in AllVarIndex : val[i] # pre.val[i]
    /\ \E i \in fixed : i[1] = "q" /\ IsIC(i)
    /\ \E i \in fixed : IsBC(i) /\ i[6] = NTimes

ExpectedSolves ==
    [k \in 1..(NAges * NTemps * (NTimes - 1)) |->
        <<((k - 1) \div (NTemps * (NTimes - 1))) + 1,
          (((k - 1) \div (NTimes - 1)) % NTemps) + 1,
          ((k - 1) % (NTimes - 1)) + 2>>]

\* C5: the solver is invoked one slice at a time, ages in set order, within an
\* age the temperatures in set order, within a pair the times ascending from the
\* second; the first time is never solved, and when initialize_simulator has
\* returned every (age, temperature, time after the first) was solved exactly
\* once: |ages| x |temperatures| x (|times| - 1) invocations.
C5_SolveOrder ==
    /\ Len(solves) <= Len(ExpectedSolves)
    /\ \A k \in 1..Len(solves) : solves[k] = ExpectedSolves[k]
    /\ AtSolve => /\ Len(solves) < Len(ExpectedSolves)
                  /\ <<age_solve, temp_solve, time_solve>> = ExpectedSolves[Len(solves) + 1]
    /\ Returned => solves = ExpectedSolves

\* A return after all the solves
C5_Witness == Returned /\ Len(solves) = NAges * NTemps * (NTimes - 1) /\ Len(solves) > 1

\* C6 as stated: when initialize_simulator has returned, every kinetic parameter
\* is fixed exactly if it was fixed immediately before the call.
C6_KineticsRestored == Returned => pfix = pre.pfix

\* C7: at every solver invocation of initialize_simulator every kinetic
\* parameter of every reaction is fixed, whatever it was before the call.
C7_KineticsFixedAtSolve == AtSolve => AllParams \subseteq pfix

\* A solve in a call before which parameters of both kinds of reaction were free
C7_Witness ==
    /\ AtSolve /\ AllParams \subseteq pfix
    /\ <<"A", "r1">> \notin pre.pfix /\ <<"Af", "r2">> \notin pre.pfix

\* C8 as stated: the B of an Arrhenius reaction configured without a B is fixed
\* in every later state.
C8_DefaultBStaysFixed == \A rxn \in bDefaulted : <<"B", rxn>> \in pfix

\* C10 as stated: the age set, the temperature set and the species sets exist
\* only if the axial and temporal dimensions are defined; the temperature set
\* only if the age set exists; the gas species set only if the temperature set
\* exists.
C10_BuildOrder ==
    /\ {"age_set", "T_set", "gas_set", "surf_set", "site_set"} \cap comps # {} =>
           {"z", "t"} \subseteq comps
    /\ "T_set" \in comps => "age_set" \in comps
    /\ "gas_set" \in comps => "T_set" \in comps

\* C10, amended: the age set exists only if the temporal dimension is defined,
\* the temperature set only if the age set exists, the gas species set only if
\* the temperature set and both dimensions exist, the surface species only
\* with gas species and the sites only with surface species; add_age_set and
\* add_temperature_set do not ask for the axial dimension.
C10_BuildOrderAsGuarded ==
    /\ "age_set" \in comps => "t" \in comps
    /\ "T_set" \in comps => "age_set" \in comps
    /\ "gas_set" \in comps => "T_set" \in comps /\ "z" \in comps
    /\ "surf_set" \in comps => "gas_set" \in comps
    /\ "site_set" \in comps => "surf_set" \in comps

\* Ages and temperatures registered without an axial dimension
C10_Witness == Running /\ {"age_set", "T_set"} \subseteq comps /\ "z" \notin comps

----------------------------------------------------------------------------
\* Properties of the setup calls

\* The call of this step is made before the prerequisite its guard tests
EarlyCall ==
    \/ call' = "add_age_set" /\ ~add_age_set_guard
    \/ call' = "add_temperature_set" /\ ~add_temperature_set_guard
    \/ call' = "add_gas_species" /\ ~add_gas_species_guard
    \/ call' = "add_surface_species" /\ ~isGasSpecSet
    \/ call' = "add_surface_sites" /\ ~isSurfSpecSet
    \/ call' = "add_reactions" /\ ~isGasSpecSet
    \/ call' = "set_reaction_info" /\ ~isRxnSet
    \/ call' = "build_constraints" /\ ~isRxnBuilt
    \/ call' = "discretize_model" /\ ~isConBuilt
    \/ call' = "set_const_IC" /\ ~isDiscrete
    \/ call' = "set_reaction_zone" /\ ~isDiscrete

\* set_const_BC for a species whose initial condition has not been set
EarlyBC ==
    /\ call' = "set_const_BC"
    /\ ~(args'[1] \in DOMAIN isInitialSet /\ isInitialSet[args'[1]])

\* The flags, the registered sets and the bookkeeping dictionaries
Bookkeeping ==
    <<flagVars, dictVars, rxnSets, rxn_list, all_species_set, comps, configured>>

\* C11: a setup call made before its prerequisite ends in the error outcome
\* and leaves every flag, registered set and bookkeeping dictionary as it was.
C11_EarlyCallRejected ==
    [][EarlyCall \/ EarlyBC => outcome' = "error" /\ UNCHANGED Bookkeeping]_vars

\* The calls other than set_const_BC are rejected so
C11_EarlyCallRejectedButBC ==
    [][EarlyCall => outcome' = "error" /\ UNCHANGED Bookkeeping]_vars

\* set_const_BC before add_reactions has filled isInitialSet: a KeyError
C11_EarlyBCRaises ==
    outcome = "crash" /\ call = "set_const_BC" /\ isGasSpecSet /\ ~isRxnSet

\* build_constraints is called while a declared reaction has no
\* set_reaction_info call
UnconfiguredBuild ==
    call' = "build_constraints" /\ isRxnSet /\ configured # all_rxns

\* C12: build_constraints with a declared reaction still unconfigured ends in
\* the error outcome and isConBuilt stays false.
C12_UnconfiguredRejected ==
    [][UnconfiguredBuild => outcome' = "error" /\ ~isConBuilt']_vars

\* isConBuilt does stay false
C12_UnconfiguredNotBuilt ==
    [][UnconfiguredBuild => ~isConBuilt']_vars

\* The guard passes with one reaction configured and the rate of the other
\* one raises, after bulk_cons has been built
C12_UnconfiguredRaises ==
    /\ outcome = "crash" /\ call = "build_constraints"
    /\ configured # {} /\ configured # all_rxns /\ "bulk_cons" \in comps

----------------------------------------------------------------------------
\* Properties of the stoichiometric coefficients

\* Product stoichiometry (0 if not a product) minus reactant stoichiometry
\* (0 if not a reactant)
NetStoich(spec, info) ==
    (IF spec \in DOMAIN info.mol_products THEN info.mol_products[spec] ELSE 0)
    - (IF spec \in DOMAIN info.mol_reactants THEN info.mol_reactants[spec] ELSE 0)

\* set_reaction_info has returned
InfoSet == Running /\ call = "set_reaction_info"

\* Right after set_reaction_info(rxn, info) every coefficient of rxn is the
\* net stoichiometry, at every location
NetAfterCall ==
    InfoSet =>
        /\ \A spec \in GasSpecies, loc \in ZPoints :
              u_C[<<spec, args[1], loc>>] = NetStoich(spec, args[2])
        /\ isSurfSpecSet =>
              \A spec \in SurfSpecies, loc \in ZPoints :
                  u_q[<<spec, args[1], loc>>] = NetStoich(spec, args[2])

\* The coefficients of rxn are the same at every location: no zone has
\* zeroed some of them
Unzoned(rxn) ==
    /\ \A spec \in GasSpecies, loc \in ZPoints :
          u_C[<<spec, rxn, loc>>] = u_C[<<spec, rxn, 1>>]
    /\ \A spec \in SurfSpecies, loc \in ZPoints :
          u_q[<<spec, rxn, loc>>] = u_q[<<spec, rxn, 1>>]

\* A step that is not a set_reaction_zone call keeps the coefficients of a
\* configured, unzoned reaction, and gives them to every location there is
\* after the step
KeptUntilZone ==
    call' # "set_reaction_zone" =>
        \A rxn \in configured :
            Unzoned(rxn) =>
                /\ \A spec \in GasSpecies, loc \in ZPoints' :
                      u_C'[<<spec, rxn, loc>>] = u_C[<<spec, rxn, 1>>]
                /\ \A spec \in SurfSpecies, loc \in ZPoints' :
                      u_q'[<<spec, rxn, loc>>] = u_q[<<spec, rxn, 1>>]

\* C13: after set_reaction_info the coefficient of every gas and surface
\* species is product minus reactant stoichiometry (the difference for a
\* species on both sides), the same at every axial location, and stays so
\* until set_reaction_zone is called.
C13_NetStoichiometry == []NetAfterCall /\ [][KeptUntilZone]_vars

\* A species on both sides got the difference, and the discretizer has
\* carried it to an interior location
C13_Witness ==
    /\ Running /\ isDiscrete /\ call = "discretize_model" /\ isSurfSpecSet
    /\ \E rxn \in configured :
          /\ u_C[<<"g", rxn, 2>>] = 1 /\ u_C[<<"g", rxn, 1>>] = 1
          /\ u_q[<<"s", rxn, 2>>] = 0 - 1

\* A set_reaction_zone call that is accepted
ZoneStep ==
    call' = "set_reaction_zone" /\ outcome' = "running"

\* C14: set_reaction_zone twice in a row with the same arguments leaves u_C
\* and u_q as the first call left them.
C14_ZoneIdempotent ==
    [][ZoneStep /\ Running /\ call = "set_reaction_zone" /\ args' = args
          => u_C' = u_C /\ u_q' = u_q]_vars

\* A zone call has zeroed some coefficients of the reaction and kept others;
\* the same call made again ends in this state
C14_Witness ==
    /\ Running /\ call = "set_reaction_zone" /\ isSurfSpecSet
    /\ \E loc \in Locs : u_C[<<"g", args[1], loc>>] = 0 /\ u_q[<<"s", args[1], loc>>] = 0
    /\ \E loc \in Locs : u_C[<<"g", args[1], loc>>] # 0 /\ u_q[<<"s", args[1], loc>>] # 0

\* The smaller and the larger end of the interval
ZoneMin(zone) == IF zone[1] <= zone[2] THEN zone[1] ELSE zone[2]
ZoneMax(zone) == IF zone[1] <= zone[2] THEN zone[2] ELSE zone[1]

\* The coefficient at loc is to be 0: outside the closed interval, or inside
\* it when isNotActive
ToZero(loc, zone, isNotActive) ==
    \/ ~isNotActive /\ (loc < ZoneMin(zone) \/ loc > ZoneMax(zone))
    \/ isNotActive /\ loc >= ZoneMin(zone) /\ loc <= ZoneMax(zone)

\* C15: set_reaction_zone(rxn, (a, b), isNotActive) makes the coefficient of
\* rxn 0 at the locations outside [min(a,b), max(a,b)] (inside, when
\* isNotActive) and leaves every other coefficient unchanged, for gas and
\* surface species; (a, b) and (b, a) give the same result.
C15_ZoneResult ==
    [][ZoneStep =>
          LET rxn == args'[1]
              zone == args'[2]
              swapped == <<zone[2], zone[1]>>
          IN  /\ \A i \in DOMAIN u_C :
                    /\ u_C'[i] = IF i[2] = rxn /\ ToZero(i[3], zone, args'[3]) THEN 0 ELSE u_C[i]
                    /\ u_C'[i] = IF i[2] = rxn /\ zeroed(i[3], swapped, args'[3])
                                 THEN zone_value(u_C[i]) ELSE u_C[i]
              /\ \A i \in DOMAIN u_q :
                    /\ u_q'[i] = IF isSurfSpecSet /\ i[2] = rxn /\ ToZero(i[3], zone, args'[3])
                                 THEN 0 ELSE u_q[i]
                    /\ u_q'[i] = IF isSurfSpecSet /\ i[2] = rxn /\ zeroed(i[3], swapped, args'[3])
                                 THEN zone_value(u_q[i]) ELSE u_q[i]]_vars

\* A zone given with the larger end first has zeroed the location outside
\* the interval and kept the ones inside
C15_Witness ==
    /\ Running /\ call = "set_reaction_zone" /\ isSurfSpecSet
    /\ args[2] = <<2, 1>> /\ ~args[3]
    /\ u_C[<<"g", args[1], NLocs>>] = 0 /\ u_q[<<"s", args[1], NLocs>>] = 0
    /\ u_C[<<"g", args[1], 1>>] # 0 /\ u_C[<<"g", args[1], 2>>] # 0

----------------------------------------------------------------------------
\* Properties of the condition and parameter setters

\* The pairs are in increasing order of time
SortedByTime(pairs) ==
    \A j \in 1..(Len(pairs) - 1) : pairs[j][1] < pairs[j + 1][1]

\* The pairs whose time is at or before t, and the latest of them
DueAt(pairs, t) == {j \in 1..Len(pairs) : pairs[j][1] <= t}
LatestAt(pairs, t) == CHOOSE j \in DueAt(pairs, t) : \A k \in DueAt(pairs, t) : k <= j

\* set_time_dependent_BC has returned
TimeBCSet == Running /\ call = "set_time_dependent_BC"

\* At grid time k the inlet value and Cb at the first location are the
\* floored value of the latest pair due
StepValueAt(k) ==
    LET pairs == args[4]
        v == clamp(pairs[LatestAt(pairs, GridTime(k))][2])
    IN  /\ Cb_in[<<args[1], args[2], args[3], k>>] = v
        /\ val[<<"Cb", args[1], args[2], args[3], 1, k>>] = v

\* C16: after set_time_dependent_BC with pairs sorted by time, the inlet
\* value (Cb_in, and Cb at the first location) at every grid time is the value
\* of the latest pair whose time is at or before it, floored.
C16_StepFunction ==
    TimeBCSet /\ SortedByTime(args[4]) =>
        \A k \in Times : DueAt(args[4], GridTime(k)) # {} => StepValueAt(k)

\* No grid step passes more than one pair
OnePairPerStep(pairs) ==
    \A k \in Times :
        Cardinality(DueAt(pairs, GridTime(k))
                    \ (IF k = 1 THEN {} ELSE DueAt(pairs, GridTime(k - 1)))) <= 1

\* The step function is what is stored when no grid step passes two pairs
C16_StepWhenOnePairPerStep ==
    TimeBCSet /\ SortedByTime(args[4]) /\ OnePairPerStep(args[4]) =>
        \A k \in Times : DueAt(args[4], GridTime(k)) # {} => StepValueAt(k)

\* Two pairs fall into one grid step and the value of the earlier one is
\* stored at the grid time after both
C16_Lagging ==
    /\ TimeBCSet /\ args[4] = <<(<<1, 5>>), (<<2, 0>>)>>
    /\ Cb_in[<<args[1], args[2], args[3], 2>>] = 5

\* The values the last call wrote, when it was one of the constant setters,
\* are at or above the floor
ConstSettersFloored ==
    /\ call = "set_const_IC" =>
          \A i \in AllVarIndex : ICSel(i, args[1], args[2], args[3]) => val[i] >= Floor
    /\ call = "set_const_BC" =>
          \A k \in Times :
              /\ Cb_in[<<args[1], args[2], args[3], k>>] >= Floor
              /\ val[<<"Cb", args[1], args[2], args[3], 1, k>>] >= Floor
    /\ call = "set_site_density" =>
           \A l \in Locs, t \in Times : Smax[<<args[1], args[2], l, t>>] >= Floor

\* The values a time dependent boundary condition wrote are at or above the floor
TimeBCFloored ==
    call = "set_time_dependent_BC" =>
        \A k \in Times :
            /\ Cb_in[<<args[1], args[2], args[3], k>>] >= Floor
            /\ val[<<"Cb", args[1], args[2], args[3], 1, k>>] >= Floor

\* A setter has been called and has not been rejected
SetterAccepted ==
    /\ Running
    /\ call \in {"set_const_IC", "set_const_BC", "set_time_dependent_BC", "set_site_density"}

\* C17: every value written by a call of set_const_IC, set_const_BC,
\* set_time_dependent_BC or set_site_density that is not rejected is at or
\* above the floor; a 0 is stored as the floor.
C17_StoredAtOrAboveFloor ==
    SetterAccepted => ConstSettersFloored /\ TimeBCFloored

\* The three constant setters do store the floor for a 0
C17_ConstSettersFloor ==
    SetterAccepted => ConstSettersFloored

\* A pair list whose first time is after the first grid time, with value 0:
\* the literal 0 is stored at the first grid time
C17_LiteralZero ==
    /\ TimeBCSet /\ args[4] = <<(<<1, 0>>)>>
    /\ Cb_in[<<args[1], args[2], args[3], 1>>] = 0
    /\ val[<<"Cb", args[1], args[2], args[3], 1, 1>>] = 0
    /\ <<"Cb", args[1], args[2], args[3], 1, 1>> \in fixed

\* A constant setter was given 0 and stored the floor
C17_ZeroFloored ==
    /\ Running /\ call = "set_const_BC" /\ args[4] = 0
    /\ Cb_in[<<args[1], args[2], args[3], 1>>] = Floor

\* The step calls a constant setter with a value below v
ConstBelow(v) ==
    \/ call' \in {"set_const_IC", "set_const_BC"} /\ args'[4] < v
    \/ call' = "set_site_density" /\ args'[3] < v

\* The step calls set_time_dependent_BC with an initial value or a pair value
\* below v
TimeBCBelow(v) ==
    /\ call' = "set_time_dependent_BC"
    /\ args'[5] < v \/ \E j \in 1..Len(args'[4]) : args'[4][j][2] < v

\* The step calls a porosity setter with a value outside [0, 1]
PorosityOutside ==
    /\ call' \in {"set_bulk_porosity", "set_washcoat_porosity"}
    /\ args'[1] < 0 \/ args'[1] > PorosityOne

\* The call is refused and no stored value, fixed flag or bookkeeping flag
\* has changed
Refused ==
    outcome' = "error" /\ UNCHANGED <<stateVars, paramVars, flagVars, dictVars>>

\* C18: a negative or sub-floor concentration given to set_const_IC,
\* set_const_BC, set_time_dependent_BC or set_site_density, and a porosity
\* outside [0,1] given to a porosity setter, ends in the error outcome with no
\* stored value, fixed flag or bookkeeping flag changed.
C18_BadValueRefused ==
    [][ConstBelow(Floor) \/ TimeBCBelow(Floor) \/ PorosityOutside => Refused]_vars

\* Negative values given to the constant setters and porosities outside
\* [0,1] are refused
C18_NegativeConstRefused ==
    [][ConstBelow(0) \/ PorosityOutside => Refused]_vars

\* A negative pair value: the exit() is swallowed, the Param refuses the
\* value, and Cb_in at the first time has already been overwritten
C18_NegativePairRaises ==
    /\ outcome = "crash" /\ call = "set_time_dependent_BC"
    /\ args[4] = <<(<<0, 0 - 1>>)>> /\ args[5] = 1
    /\ isBoundarySet[args[1]]
    /\ Cb_in[<<args[1], args[2], args[3], 1>>] = Floor
    /\ Cb_in[<<args[1], args[2], args[3], 2>>] = 5

----------------------------------------------------------------------------
\* Properties of the reaction declarations

\* add_reactions has returned
ReactionsAdded == Running /\ call = "add_reactions"

\* The reaction sets partition the declared names by kind, and no reaction
\* is marked fixed
PartitionedByKind ==
    LET rxns == args[1]
    IN  /\ isRxnSet
        /\ arrhenius_rxns \cap equ_arrhenius_rxns = {}
        /\ arrhenius_rxns \cup equ_arrhenius_rxns = all_rxns
        /\ all_rxns = DOMAIN rxns
        /\ \A r \in DOMAIN rxns :
              /\ rxns[r] = "Arrhenius" => r \in arrhenius_rxns
              /\ rxns[r] = "EquilibriumArrhenius" => r \in equ_arrhenius_rxns
              /\ rxn_list[r].fixed = FALSE

\* The step calls add_reactions, past its guard, with a kind that is not
\* supported
InvalidKindCall ==
    /\ call' = "add_reactions" /\ isGasSpecSet
    /\ \E r \in DOMAIN args'[1] : args'[1][r] \notin {"Arrhenius", "EquilibriumArrhenius"}

\* Nothing of the reactions has been created
NoReactionsCreated ==
    /\ outcome' = "error"
    /\ ~isRxnSet'
    /\ all_rxns' = {} /\ arrhenius_rxns' = {} /\ equ_arrhenius_rxns' = {}
    /\ comps' \cap {"all_rxns", "arrhenius_rxns", "equ_arrhenius_rxns", "A", "B", "E",
                    "Af", "Ef", "dH", "dS", "u_C", "u_q", "rxn_orders"} = {}
    /\ UNCHANGED <<comps, rxn_list, pval, pfix>>

\* C19: after add_reactions succeeds the Arrhenius and equilibrium sets are
\* disjoint, their union is all_rxns, every reaction is in the set of its
\* kind and no 'fixed' flag is set; with an unsupported kind the call ends in
\* the error outcome with no reaction set, no parameter storage and isRxnSet
\* false.
C19_ReactionsPartitioned ==
    [](ReactionsAdded => PartitionedByKind) /\ [][InvalidKindCall => NoReactionsCreated]_vars

\* Both kinds have been declared
C19_Witness ==
    /\ ReactionsAdded
    /\ arrhenius_rxns = {"r1"} /\ equ_arrhenius_rxns = {"r2"}
    /\ {"A", "Af"} \subseteq comps

\* The step calls set_reaction_info, past its guard, with a key missing or
\* for a name that was not declared
IncompleteInfoCall ==
    /\ call' = "set_reaction_info" /\ isRxnSet
    /\ args'[2].has # FieldNames \/ args'[1] \notin all_rxns

\* C20: set_reaction_info with 'parameters', 'mol_reactants', 'mol_products'
\* or 'rxn_orders' missing, or for an undeclared reaction name, ends in the
\* error outcome and changes nothing.
C20_IncompleteInfoRefused ==
    [][IncompleteInfoCall =>
          /\ outcome' = "error"
          /\ UNCHANGED <<flagVars, dictVars, kinVars, stateVars, comps, all_species_set,
                         configured, dataVars>>]_vars

\* A call without its rxn_orders has been refused
C20_Witness ==
    /\ outcome = "error" /\ call = "set_reaction_info" /\ isRxnSet
    /\ args[1] \in all_rxns /\ args[2].has = FieldNames \ {"rxn_orders"}

----------------------------------------------------------------------------
\* Properties of the reaction orders

\* A set_reaction_info call that is accepted
InfoStep == call' = "set_reaction_info" /\ outcome' = "running"

\* s is listed as a reactant or as a product
Participates(s, info) ==
    s \in DOMAIN info.mol_reactants \/ s \in DOMAIN info.mol_products

\* C21: after set_reaction_info(rxn, info) the order of rxn in a species of
\* the model is the configured one if the species is a reactant or a product
\* of rxn, and its previous value otherwise; an order given for a species
\* that is neither is ignored and the call is accepted.
C21_OrdersOfParticipants ==
    [][InfoStep =>
          \A i \in DOMAIN rxn_orders :
              rxn_orders'[i] =
                  IF /\ i[1] = args'[1] /\ i[2] \in all_species_set
                     /\ Participates(i[2], args'[2])
                  THEN args'[2].rxn_orders[i[2]]
                  ELSE rxn_orders[i]]_vars

\* An order was given for the site species, which is in the model and is
\* neither reactant nor product: it was not recorded, the others were
C21_Witness ==
    /\ InfoSet /\ "x" \in all_species_set
    /\ "x" \in DOMAIN args[2].rxn_orders /\ args[2].rxn_orders["x"] # 0
    /\ rxn_orders[<<args[1], "x">>] = 0
    /\ rxn_orders[<<args[1], "g">>] = 2 /\ rxn_orders[<<args[1], "s">>] = 3

----------------------------------------------------------------------------
\* The parameters on the grid: site densities, temperatures and reaction
\* information are given on the two bounds of each dimension, then the model
\* is discretized.

DensityValues == {5}

call_set_grid_info ==
    ~isDiscrete /\ \E rxn \in RxnNames : set_reaction_info(rxn, InfoWithB)
call_set_site_density_early ==
    ~isDiscrete /\ \E site \in SiteSpecies, value \in DensityValues :
                       set_site_density(site, 1, value)
call_set_isothermal_temp ==
    ~isDiscrete /\ \E temp \in {1, NTemps}, value \in TempValues :
                       set_isothermal_temp(1, temp, value)

GridNext ==
    \/ add_axial_dim
    \/ add_temporal_dim
    \/ add_age_set
    \/ add_temperature_set
    \/ add_gas_species
    \/ add_surface_species
    \/ add_surface_sites
    \/ add_reactions
    \/ call_set_grid_info
    \/ call_set_site_density_early
    \/ call_set_isothermal_temp
    \/ build_constraints
    \/ discretize_model

SpecGrid == Init /\ [][GridNext]_vars

\* Properties of the discretization
DiscretizeStep == call' = "discretize_model" /\ outcome' = "running"

----------------------------------------------------------------------------
\* The calls that follow the discretization, on a model whose conditions are
\* all set: constant and time dependent conditions, a reaction zone, the
\* staged solve and the solve of the whole model, in any order and repeated

PinSetup ==
    \/ add_axial_dim
    \/ add_temporal_dim
    \/ add_age_set
    \/ add_temperature_set
    \/ add_gas_species
    \/ add_surface_species
    \/ add_reactions
    \/ build_constraints
    \/ discretize_model

call_set_const_IC_after ==
    KinReady /\ \E spec \in GasSpecies : set_const_IC(spec, 1, 1, Floor + 3) /\ NoDriver
call_set_const_BC_after ==
    KinReady /\ \E spec \in GasSpecies : set_const_BC(spec, 1, 1, Floor + 4) /\ NoDriver
call_set_time_dependent_BC_after ==
    KinReady /\ \E spec \in GasSpecies :
                    set_time_dependent_BC(spec, 1, 1, <<<<GridTime(2), Floor + 5>>>>, Floor)
call_set_reaction_zone_after ==
    KinReady /\ \E rxn \in {"r1"} : set_reaction_zone(rxn, <<1, 2>>, FALSE)

PinNext ==
    \/ PinSetup
    \/ \E rxn \in DOMAIN RxnKinds : set_reaction_info(rxn, InfoWithB)
    \/ DriverIC
    \/ DriverBC
    \/ call_set_const_IC_after
    \/ call_set_const_BC_after
    \/ call_set_time_dependent_BC_after
    \/ call_set_reaction_zone_after
    \/ call_run_solver
    \/ Staged

SpecPin == Init /\ [][PinNext]_vars

\* Properties of the pinned derivative
FirstPointDerivative(i) == i[1] = "dCb_dt" /\ i[5] = 1 /\ i[6] = 1

Pinned == \A i \in AllVarIndex : FirstPointDerivative(i) => i \in fixed /\ val[i] = 0

\* C23: once the model is discretized, dCb_dt at (first location, first time)
\* is fixed with the value 0 for every gas species, age and temperature when
\* discretize_model returns, and whenever one of set_const_IC, set_const_BC,
\* set_time_dependent_BC, set_reaction_zone, initialize_simulator or run_solver
\* has returned, ended or raised, and at every solver invocation.
C23_PinKept == isDiscrete /\ pc \in {"idle", "done", "solve"} => Pinned

\* The whole model is solved after a staged solve and a change of conditions
C23_Witness ==
    /\ call = "run_solver" /\ outcome = "running" /\ solves # <<>>
    /\ Pinned
    /\ \E i \in AllVarIndex : i[1] = "dCb_dt" /\ val[i] \in SolverValues
    /\ \E i \in DOMAIN Cb_in : Cb_in[i] = Floor + 5
    /\ \E i \in DOMAIN u_C : i[2] \in all_rxns /\ u_C[<<i[1], i[2], 1>>] # u_C[i]

----------------------------------------------------------------------------
\* The staged solve with a solver that converges on some slices and not on
\* others

StagedAny ==
    \/ Staged
    \/ SolveUnconverged

SolveNext ==
    \/ Setup
    \/ \E rxn \in DOMAIN RxnKinds : set_reaction_info(rxn, InfoWithB)
    \/ DriverIC
    \/ DriverBC
    \/ StagedAny

SpecSolve == Init /\ [][SolveNext]_vars

\* Properties of the solver outcomes
Unconverged == results = "infeasible"

\* C24: whatever each slice solve returned, the solves follow the one order
\* of the loops, a solve changes no flag and is followed by the restore step,
\* and at return every slice has been solved, the constraints are active as
\* before the call and the fixed variables are those fixed before the call
\* and the persistent fixings.
C24_OutcomeIgnored ==
    /\ [](/\ Len(solves) <= Len(ExpectedSolves)
          /\ \A k \in 1..Len(solves) : solves[k] = ExpectedSolves[k]
          /\ AtSolve => <<age_solve, temp_solve, time_solve>> = ExpectedSolves[Len(solves) + 1]
          /\ Returned => /\ solves = ExpectedSolves
                         /\ active = pre.active
                         /\ fixed = pre.fixed \cup PersistentVars)
    /\ [][pc = "solve" /\ pc' # "solve" =>
              /\ pc' = "restore_unfix" /\ time_hold' = 1
              /\ fixed' = fixed /\ active' = active]_vars

\* A return after a last solve that did not converge
C24_Witness == Returned /\ Unconverged /\ Len(solves) > 1 /\ solves = ExpectedSolves

\* C25: a slice solve that did not converge ends the staged solve with an
\* error, and no later slice is handed to the solver after it.
C25_FailFast ==
    /\ [](Unconverged => ~Running)
    /\ [][Unconverged /\ results' = results => solves' = solves]_vars

\* The slice after an unconverged one is at the solver
C25_SolvedAfterUnconverged == AtSolve /\ Unconverged /\ Len(solves) > 0

----------------------------------------------------------------------------
\* Properties of the restore step

InRestore == Running /\ pc \in {"restore_unfix", "restore_refix"}

OfSolvedPair(i) == i[3] = age_solve /\ i[4] = temp_solve

\* C26: every statement of the restore step that follows a slice solve leaves
\* the fixed flag of every variable instance and the active flag of every
\* constraint instance of every other (age, temperature) pair as it was.
C26_RestoreKeepsOtherPairs ==
    [][InRestore =>
          /\ \A i \in AllVarIndex : ~OfSolvedPair(i) => (i \in fixed' <=> i \in fixed)
          /\ \A c \in AllConIndex : ~OfSolvedPair(c) => (c \in active' <=> c \in active)]_vars

\* Inside a restore step: instances of the solved pair were released, those
\* of another pair are held
C26_Witness ==
    /\ Running /\ pc = "restore_refix" /\ RestoresTime(time_hold)
    /\ \E i \in AllVarIndex : OfSolvedPair(i) /\ i[1] \in comps /\ i[6] = time_hold /\ i \notin fixed
    /\ \E c \in AllConIndex : OfSolvedPair(c) /\ c[6] = time_hold /\ c \in active
    /\ \E i \in AllVarIndex : ~OfSolvedPair(i) /\ i[6] = time_hold /\ i \in fixed
    /\ \E c \in AllConIndex : ~OfSolvedPair(c) /\ c[1] \in comps /\ c[6] = time_hold /\ c \notin active

----------------------------------------------------------------------------
\* Properties of the state at the end of an outer iteration

\* The end of the iteration of an (age, temperature) pair: the next pair is
\* about to be held, or the loops are over
EndOfPair ==
    /\ Running
    /\ \/ pc = "hold_pair" /\ <<age_solve, temp_solve>> # <<1, 1>>
       \/ pc \in {"finish", "done"}

PersistentInstance(i) ==
    \/ i[1] \in {"Cb", "C"} /\ i[6] = 1
    \/ i[1] = "q" /\ i[6] = 1
    \/ i[1] = "Cb" /\ i[5] = 1
    \/ i[1] = "dCb_dt" /\ i[5] = 1 /\ i[6] = 1

\* C27: at the end of every outer (age, temperature) iteration and at return,
\* every constraint instance of every family of the model is active, and an
\* instance of a state or derivative variable of the model is fixed exactly
\* when it is Cb, C or q at the first time, Cb at the first location, or dCb_dt
\* at (first location, first time).
C27_PersistentSetAtEnd ==
    EndOfPair =>
        /\ \A c \in AllConIndex : c[1] \in comps => c \in active
        /\ \A i \in AllVarIndex : i[1] \in comps => (i \in fixed <=> PersistentInstance(i))

\* The end of the iteration of a pair other than the last, on a model with
\* surface species and sites whose conditions were set for one pair only
C27_Witness ==
    /\ EndOfPair /\ pc = "hold_pair" /\ isSitesSet /\ Len(solves) > 0
    /\ \E i \in AllVarIndex : PersistentInstance(i) /\ i[1] = "q" /\ i \notin pre.fixed /\ i \in fixed
    /\ \E i \in AllVarIndex : i[1] = "S" /\ i \notin fixed

----------------------------------------------------------------------------
\* The staged solve with a solver whose values differ from solve to solve

StagedDistinct ==
    \/ initialize_simulator
    \/ HoldPair
    \/ HoldTime
    \/ SolveDistinct
    \/ RestoreUnfix
    \/ RestoreRefix
    \/ UnfixPair
    \/ RefixPair
    \/ Finish

PersistNext ==
    \/ Setup
    \/ \E rxn \in DOMAIN RxnKinds : set_reaction_info(rxn, InfoWithB)
    \/ DriverIC
    \/ DriverBC
    \/ StagedDistinct

SpecPersist == Init /\ [][PersistNext]_vars

\* Properties of the values of the solved slices

\* The instance of family f and species s at location z of the slice of the
\* k-th solve of the call
AtSlice(f, s, z, k) == <<f, s, solves[k][1], solves[k][2], z, solves[k][3]>>

\* The instances the k-th solve of the call produced: those of its slice,
\* but for the boundary variable
SolvedBy(i, k) ==
    /\ i[1] \in comps
    /\ <<i[3], i[4], i[6]>> = solves[k]
    /\ ~(i[1] = "Cb" /\ i[5] = 1)

\* The instances of the solved pair one time step before the slice at the solver
OfPreviousStep(i) ==
    i[1] \in comps /\ OfSolvedPair(i) /\ i[6] = time_solve - 1

\* C28: within a call of initialize_simulator and at its return, every
\* instance of a solved slice has the value its own solve produced, and at
\* every later solve every instance of a solved slice is fixed; and at the
\* solve of a time step the instances of the step before of the same pair are
\* fixed, and that step, unless it is the first time, was the solve before.
C28_SliceValuesPersist ==
    /\ InCall \/ Returned =>
           \A k \in 1..Len(solves) : \A f \in VarFams \cap comps :
               \A s \in SpeciesOf(f), z \in Locs :
                   SolvedBy(AtSlice(f, s, z, k), k) => val[AtSlice(f, s, z, k)] = SliceValue(k)
    /\ AtSolve =>
           \A k \in 1..Len(solves) : \A f \in VarFams \cap comps :
               \A s \in SpeciesOf(f), z \in Locs : AtSlice(f, s, z, k) \in fixed
    /\ AtSolve =>
           /\ \A i \in AllVarIndex : OfPreviousStep(i) => i \in fixed
           /\ time_solve > 2 =>
                  /\ Len(solves) > 0
                  /\ solves[Len(solves)] = <<age_solve, temp_solve, time_solve - 1>>

\* A return after all the solves: the first and the last slice hold the
\* values of their own solves
C28_Witness ==
    /\ Returned /\ Len(solves) = Len(ExpectedSolves) /\ Len(solves) > 2
    /\ \E i \in AllVarIndex : SolvedBy(i, 1) /\ i[1] = "C" /\ val[i] = SliceValue(1)
    /\ \E i \in AllVarIndex :
           SolvedBy(i, Len(solves)) /\ i[1] = "C" /\ val[i] = SliceValue(Len(solves))

----------------------------------------------------------------------------
\* The staged solve with a solver call that may raise

AbortNext ==
    \/ Setup
    \/ \E rxn \in DOMAIN RxnKinds : set_reaction_info(rxn, InfoWithB)
    \/ DriverIC
    \/ DriverBC
    \/ Staged
    \/ SolveRaises

SpecAbort == Init /\ [][AbortNext]_vars

\* Properties of an aborted solve
SolverRaised == outcome = "crash" /\ pc = "solve"

\* C29: when the solver call has raised inside initialize_simulator, no
\* constraint is left deactivated, no variable is left fixed but those fixed
\* before the call and the persistent fixings, and the kinetic parameters are
\* fixed as before the call.
C29_RestoredOnAbort ==
    SolverRaised =>
        /\ \A c \in AllConIndex : c[1] \in comps => c \in active
        /\ \A i \in fixed : i \in pre.fixed \/ PersistentInstance(i)
        /\ pfix = pre.pfix

\* The solver raised at a slice: variables of other times and pairs are left
\* fixed, their constraints deactivated
C29_LeftHeld ==
    /\ SolverRaised
    /\ \E i \in fixed : i \notin pre.fixed /\ ~PersistentInstance(i) /\ ~OfSolvedPair(i)
    /\ \E i \in fixed : i \notin pre.fixed /\ ~PersistentInstance(i) /\ OfSolvedPair(i)
    /\ \E c \in AllConIndex : c[1] \in comps /\ c \notin active

----------------------------------------------------------------------------
\* Properties of the surface and site families

BuildStep == call' = "build_constraints" /\ outcome' = "running"

TouchedVar(i) == (i \in fixed') # (i \in fixed)
TouchedCon(c) == (c \in active') # (c \in active)

\* The gas family whose instances take the same hold and restore steps
GasTwin(f) ==
    CASE f = "q" -> "C"
      [] f \in {"dq_dt", "S"} -> "dC_dt"
      [] f \in {"surf_cons", "site_cons"} -> "pore_cons"
      [] f = "dq_dt_disc_eq" -> "dC_dt_disc_eq"

TwinOf(i, spec) == <<GasTwin(i[1]), spec, i[3], i[4], i[5], i[6]>>

\* C30: build_constraints creates surf_cons exactly when surface species are
\* declared and site_cons exactly when sites are declared; a step of
\* initialize_simulator changes the flag of an instance of q, dq_dt, surf_cons
\* or dq_dt_disc_eq only when surface species are declared, and of S or
\* site_cons only when sites are declared; and during and after the call every
\* instance of such a family of the model is held exactly when the instance of
\* the gas family at the same age, temperature, location and time is (after
\* the first time for q, whose initial condition is set by its own call).
C30_SurfaceAndSitesWhenDeclared ==
    /\ [][BuildStep =>
              /\ "surf_cons" \in comps' <=> isSurfSpecSet
              /\ "site_cons" \in comps' <=> isSitesSet]_vars
    /\ [][InCall =>
              /\ \A i \in AllVarIndex :
                     /\ i[1] \in SurfFams /\ TouchedVar(i) => isSurfSpecSet
                     /\ i[1] \in SiteFams /\ TouchedVar(i) => isSitesSet
              /\ \A c \in AllConIndex :
                     /\ c[1] \in SurfCons /\ TouchedCon(c) => isSurfSpecSet
                     /\ c[1] \in SiteCons /\ TouchedCon(c) => isSitesSet]_vars
    /\ [](InCall \/ Returned =>
              /\ \A i \in AllVarIndex : \A g \in GasSpecies :
                     /\ i[1] \in (SurfFams \cup SiteFams) \cap DeclaredVarFams
                     /\ i[1] = "q" => i[6] > 1
                     => (i \in fixed <=> TwinOf(i, g) \in fixed)
              /\ \A c \in AllConIndex : \A g \in GasSpecies :
                     c[1] \in (SurfCons \cup SiteCons) \cap DeclaredConFams \cap comps
                     => (c \in active <=> TwinOf(c, g) \in active))

\* A solve on a model with surface species and sites: their instances outside
\* the slice are held with the gas instances, those of the slice are not
C30_Witness ==
    /\ AtSolve /\ isSurfSpecSet /\ isSitesSet /\ Len(solves) > 0
    /\ \E i \in fixed : i[1] = "S" /\ ~InSlice(i)
    /\ \E i \in AllVarIndex : i[1] = "S" /\ InSlice(i) /\ i \notin fixed
    /\ \E c \in AllConIndex : c[1] = "site_cons" /\ ~InSlice(c) /\ c \notin active
    /\ \E c \in active : c[1] = "surf_cons" /\ InSlice(c)
    /\ \E i \in fixed : i[1] = "dq_dt" /\ ~InSlice(i)

----------------------------------------------------------------------------
\* Properties of the initial value of a time dependent boundary condition

\* set_time_dependent_BC has returned
TimeBCReturned == call = "set_time_dependent_BC" /\ outcome = "running" /\ isBoundarySet[args[1]]

\* The grid times before the time of the first pair
BeforeFirstPair == {k \in Times : GridTime(k) < args[4][1][1]}

InletAt(k) == Cb_in[<<args[1], args[2], args[3], k>>]
BoundaryAt(k) == val[<<"Cb", args[1], args[2], args[3], 1, k>>]

\* C31: when set_time_dependent_BC has returned, at every grid time before
\* the time of the first pair Cb_in and Cb at the first location have the
\* given initial value (raised to the floor).
C31_InitialValueBeforeFirstPair ==
    TimeBCReturned =>
        \A k \in BeforeFirstPair :
            InletAt(k) = clamp(args[5]) /\ BoundaryAt(k) = clamp(args[5])

\* A returned call whose grid times before the first pair, the first time
\* among them, carry the value of the first pair and not the initial value
C31_FirstPairValueEarly ==
    /\ TimeBCReturned /\ 1 \in BeforeFirstPair
    /\ args[4][1][2] # args[5] /\ args[4][1][2] >= Floor
    /\ \A k \in BeforeFirstPair : InletAt(k) = args[4][1][2] /\ BoundaryAt(k) = args[4][1][2]

----------------------------------------------------------------------------
\* Properties of the tracking flags

InitialSet(s) == s \in DOMAIN isInitialSet /\ isInitialSet[s]
BoundarySet(s) == s \in DOMAIN isBoundarySet /\ isBoundarySet[s]

\* The guard of initialize_simulator and run_solver lets the call pass
SolveGuardPasses == "gas_set" \in comps /\ \A spec \in GasSpecies : BoundarySet(spec)

C33_ComponentsExist ==
    /\ isSurfSpecSet /\ isRxnSet =>
           /\ "u_q" \in comps
           /\ SurfSpecies \subseteq all_species_set
           /\ isSitesSet => SiteSpecies \subseteq all_species_set
    /\ isSurfSpecSet /\ isConBuilt => "surf_cons" \in comps

\* add_surface_species has taken effect on a model whose reactions and
\* constraints were built without surface species
C33_LateSurfaceSpecies ==
    /\ call = "add_surface_species" /\ Running
    /\ isSurfSpecSet /\ isRxnSet /\ isConBuilt
    /\ "u_q" \notin comps /\ "surf_cons" \notin comps
    /\ SurfSpecies \cap all_species_set = {}

----------------------------------------------------------------------------
\* initialize_simulator called twice in a row

\* The call that has returned followed a returned initialize_simulator call
ReturnedAgain == call = "initialize_simulator" /\ Running /\ pc = "done" /\ pre.again

\* C34: initialize_simulator is idempotent on the bookkeeping state: when the
\* second of two calls in a row returns, the fixed flag of every variable, the
\* active flag of every constraint, the fixed flag of every kinetic parameter
\* and the 'fixed' entry of every reaction are as the first call left them.
C34_SecondCallChangesNothing ==
    ReturnedAgain =>
        /\ fixed = pre.fixed
        /\ active = pre.active
        /\ pfix = pre.pfix
        /\ \A rxn \in DOMAIN rxn_list : rxn_list[rxn].fixed = fixed_dict[rxn]

\* A second call has returned on a model in which the first call had left
\* variables fixed and kinetic parameters free
C34_Witness ==
    /\ ReturnedAgain /\ Len(solves) > 0
    /\ fixed # {} /\ \E rxn \in DOMAIN rxn_list : ~rxn_list[rxn].fixed

----------------------------------------------------------------------------
\* The boundary guard of the solve

\* The staged solve is about to invoke the solver for the first time
FirstInvocation == Running /\ pc = "solve" /\ Len(solves) = 0

\* Cb at the first location, of the pair and the time being solved
ActiveBoundary == {<<"Cb", spec, age_solve, temp_solve, 1, time_solve>> : spec \in GasSpecies}

\* C35: the solver is invoked only when a boundary condition has been set for
\* every gas species, age and temperature: at the first solver invocation Cb at
\* the first location is fixed for every gas species of the active pair at the
\* active time.
C35_BoundaryFixedAtFirstSolve == FirstInvocation => ActiveBoundary \subseteq fixed

\* The first invocation solves a pair whose boundary condition was never set:
\* the guard passed on the flag of the species, set for another pair
C35_FreeBoundaryAtFirstSolve ==
    /\ FirstInvocation /\ \A spec \in GasSpecies : isBoundarySet[spec]
    /\ drvPairs < NPairs
    /\ ActiveBoundary \cap fixed = {}

----------------------------------------------------------------------------
\* set_reaction_zone only removes stoichiometry

\* The location is in the active region of the call
ActiveRegion(loc, zone, isNotActive) == ~ToZero(loc, zone, isNotActive)

\* The coefficient of index i before and after a call on rxn: a zero stays
\* zero, another reaction's coefficient is kept, and one of rxn that is not
\* zero afterwards is unchanged and lies in the active region of the call
OnlyRemoved(old, new, i, rxn, zone, isNotActive) ==
    /\ old = 0 => new = 0
    /\ i[2] # rxn => new = old
    /\ i[2] = rxn /\ new # 0 => new = old /\ ActiveRegion(i[3], zone, isNotActive)

\* The call follows an accepted call on the same reaction, and no location is
\* in the active region of both
DisjointFromPrevious ==
    /\ call = "set_reaction_zone" /\ Running /\ args[1] = args'[1]
    /\ \A loc \in Locs : ~(ActiveRegion(loc, args[2], args[3])
                            /\ ActiveRegion(loc, args'[2], args'[3]))

\* C36: set_reaction_zone only removes stoichiometry: no accepted call changes
\* a coefficient of 0 to a nonzero value, the coefficients of the other
\* reactions and all reaction orders are unchanged, a location keeps its
\* coefficient only if it is in the active region of the call (hence of every
\* call of a sequence), and two calls in a row on one reaction with disjoint
\* active regions leave the reaction's coefficients 0 everywhere.
C36_ZoneOnlyRemoves ==
    [][ZoneStep =>
          /\ \A i \in DOMAIN u_C :
                OnlyRemoved(u_C[i], u_C'[i], i, args'[1], args'[2], args'[3])
          /\ \A i \in DOMAIN u_q :
                OnlyRemoved(u_q[i], u_q'[i], i, args'[1], args'[2], args'[3])
          /\ rxn_orders' = rxn_orders
          /\ DisjointFromPrevious =>
                /\ \A i \in DOMAIN u_C : i[2] = args'[1] => u_C'[i] = 0
                /\ \A i \in DOMAIN u_q : i[2] = args'[1] => u_q'[i] = 0]_vars

\* A call that keeps the first location only has returned on a reaction whose
\* first location an earlier call had zeroed: the reaction is zero everywhere,
\* the other reaction keeps its coefficients
C36_Witness ==
    /\ Running /\ call = "set_reaction_zone" /\ isSurfSpecSet
    /\ args[1] \in configured /\ args[2] = <<1, 1>> /\ ~args[3]
    /\ \A loc \in Locs : u_C[<<"g", args[1], loc>>] = 0 /\ u_q[<<"s", args[1], loc>>] = 0
    /\ \E rxn \in configured \ {args[1]} :
          \A loc \in Locs : u_C[<<"g", rxn, loc>>] # 0 /\ u_q[<<"s", rxn, loc>>] # 0

----------------------------------------------------------------------------
\* The corner shared by the initial and the boundary condition

\* An accepted condition call on a gas species
ICStep == call' = "set_const_IC" /\ outcome' = "running" /\ args'[1] \in GasSpecies
BCStep == call' \in {"set_const_BC", "set_time_dependent_BC"} /\ outcome' = "running"

\* Cb and C of the call's species, age and temperature at the first time
CbFirstTime(a, loc) == <<"Cb", a[1], a[2], a[3], loc, 1>>
CFirstTime(a, loc) == <<"C", a[1], a[2], a[3], loc, 1>>

\* The boundary value at the first time: the value of a constant condition,
\* the inlet value the call has stored for a time dependent one
BoundaryValue ==
    IF call' = "set_const_BC" THEN clamp(args'[4])
    ELSE Cb_in'[<<args'[1], args'[2], args'[3], 1>>]

\* The condition calls of one gas species, age and temperature on a
\* discretized model: initial condition, constant and time dependent boundary
\* condition, in any order and any number of times
CornerNext ==
    \/ BCNext
    \/ call_set_const_BC

SpecCorner == Init /\ [][CornerNext]_vars

\* C37: a boundary call made after set_const_IC leaves the corner Cb at the
\* first location and first time fixed at the boundary value, while Cb at
\* every other location at the first time and C at every location at the
\* first time keep the initial value; a set_const_IC call writes the initial
\* value at every location, the corner included, so calling it again after
\* the boundary call overwrites the corner.
C37_CornerTakesLastCall ==
    [][/\ BCStep =>
              /\ CbFirstTime(args', 1) \in fixed'
              /\ val'[CbFirstTime(args', 1)] = BoundaryValue
              /\ \A loc \in Locs \ {1} :
                    /\ val'[CbFirstTime(args', loc)] = val[CbFirstTime(args', loc)]
                    /\ CbFirstTime(args', loc) \in fixed
              /\ \A loc \in Locs :
                    /\ val'[CFirstTime(args', loc)] = val[CFirstTime(args', loc)]
                    /\ CFirstTime(args', loc) \in fixed
       /\ ICStep =>
              \A loc \in Locs :
                 /\ val'[CbFirstTime(args', loc)] = clamp(args'[4])
                 /\ val'[CFirstTime(args', loc)] = clamp(args'[4])
                 /\ {CbFirstTime(args', loc), CFirstTime(args', loc)} \subseteq fixed']_vars

\* The boundary call has put its value in the corner, over the initial value
\* kept at the other locations
C37_BoundaryOverInitial ==
    /\ Running /\ call \in {"set_const_BC", "set_time_dependent_BC"}
    /\ val[CbFirstTime(args, 1)] = Cb_in[<<args[1], args[2], args[3], 1>>]
    /\ val[CbFirstTime(args, 1)] # val[CbFirstTime(args, 2)]
    /\ val[CbFirstTime(args, 2)] = val[CFirstTime(args, 1)]
    /\ CbFirstTime(args, 1) \in fixed

\* set_const_IC called again has overwritten the corner: the inlet value of
\* the boundary call differs from it
C37_Witness ==
    /\ Running /\ call = "set_const_IC" /\ args[1] \in GasSpecies /\ isBoundarySet[args[1]]
    /\ val[CbFirstTime(args, 1)] = clamp(args[4])
    /\ val[CbFirstTime(args, 1)] # Cb_in[<<args[1], args[2], args[3], 1>>]

----------------------------------------------------------------------------
\* The 'fixed' entry of rxn_list and the kinetic parameters

\* Every kinetic parameter of the reaction is fixed
AllParamsFixed(rxn) == \A p \in KinParams(rxn) : <<p, rxn>> \in pfix

\* C38: between the calls set_reaction_info, fix_all_reactions, fix_reaction,
\* unfix_reaction, fix_all_equilibrium_relations, fix_equilibrium_relation,
\* initialize_simulator and run_solver, rxn_list[rxn]['fixed'] is true exactly
\* when all of the reaction's kinetic parameters (A, B, E or Af, Ef, dH, dS)
\* are fixed.
C38_FlagMatchesParams ==
    Idle => \A rxn \in DOMAIN rxn_list : rxn_list[rxn].fixed <=> AllParamsFixed(rxn)

\* fix_equilibrium_relation has returned with the flag of the reaction true
\* and Af and Ef free
C38_FlagTrueParamsFree ==
    /\ Idle /\ call = "fix_equilibrium_relation"
    /\ \E rxn \in DOMAIN rxn_list :
          /\ rxn_list[rxn].fixed
          /\ <<"dH", rxn>> \in pfix /\ <<"dS", rxn>> \in pfix
          /\ <<"Af", rxn>> \notin pfix /\ <<"Ef", rxn>> \notin pfix

----------------------------------------------------------------------------
\* run_solver without an objective function

\* An accepted run_solver call
RunStep == call' = "run_solver" /\ outcome' = "running"

\* Every kinetic parameter of every reaction is fixed and flagged so
AllKineticsFixed ==
    \A rxn \in DOMAIN rxn_list : rxn_list[rxn].fixed /\ AllParamsFixed(rxn)

\* initialize_simulator has returned from a call made with every reaction
\* flagged fixed, as run_solver leaves them
ReturnedFromFixed ==
    /\ call = "initialize_simulator" /\ Returned
    /\ \A rxn \in DOMAIN fixed_dict : fixed_dict[rxn]

\* C39: run_solver fixes every kinetic parameter before its solve and sets
\* every 'fixed' entry true, and does not restore them: whatever was free
\* before the call is fixed after it, the solve moves no kinetic parameter, and
\* an initialize_simulator call made on reactions so flagged leaves them
\* fixed. run_solver changes no fixed flag of a state variable and no active
\* flag of a constraint.
C39_RunSolverFixesKinetics ==
    /\ [](ReturnedFromFixed => AllKineticsFixed)
    /\ [][RunStep =>
             /\ AllKineticsFixed'
             /\ pval' = pval
             /\ fixed' = fixed /\ active' = active]_vars

\* run_solver has returned with every kinetic parameter fixed, on a model
\* whose last initialize_simulator call had left every reaction free
C39_Witness ==
    /\ Running /\ call = "run_solver" /\ pc = "idle"
    /\ DOMAIN rxn_list = RxnNames /\ AllKineticsFixed
    /\ DOMAIN fixed_dict = RxnNames /\ \A rxn \in RxnNames : ~fixed_dict[rxn]
    /\ Len(solves) > 0

====
